---- MODULE Spec2Model ----
(***************************************************************************)
(* Docker-Guardian decision engine: the RestartTracker (per-container      *)
(* backoff, rolling restart budget, circuit breaker) and the unhealthy     *)
(* handler that the Guardian runs from debounced event timers.             *)
(* Time is counted in whole seconds.                                       *)
(***************************************************************************)
EXTENDS Integers, Sequences, FiniteSets, TLC

\* ---------------------------------------------------------------- bounds
MaxClock == 30
Tick == 5
MaxRecords == 3
MaxTimers == 2
MaxRunClock == 5
MaxRaceTimers == 4
MaxRaceClock == 10
MaxLedgerClock == 10
MaxLedgerTimers == 1
MaxPruners == 1
ChanCap == 2
MaxEvents == ChanCap + 1
MaxClosures == 7
MaxDrops == 2
MaxUnhealthy == 2

\* ------------------------------------------------------ program constants
InitialBackoff == 10

\* --------------------------------------------------------- input domains
Ids == {"a", "b"}
Budgets == {0, 1, 2}
Windows == {0, 5, 15}
Backoffs == {[BackoffMultiplier |-> 2, BackoffMax |-> 30],
             [BackoffMultiplier |-> 1, BackoffMax |-> 5]}

\* Label maps of the monitored containers.
NoLabels == << >>
StopLabels == ("autoheal.action" :> "stop") @@ ("autoheal.stop.timeout" :> "30")
StopOnlyLabels == ("autoheal.action" :> "stop")
NotifyLabels == ("autoheal.action" :> "notify")
NoneLabels == ("autoheal.action" :> "none")
OptOutLabels == ("autoheal" :> "False")
OddLabels ==
  ("autoheal.action" :> "invalid") @@ ("autoheal.stop.timeout" :> "abc") @@ ("backup.stop" :> "true")
QuietLabels == ("autoheal.notify" :> "false")
LabelSets ==
  {NoLabels, StopLabels, StopOnlyLabels, NotifyLabels, NoneLabels, OptOutLabels, OddLabels,
   QuietLabels}

\* Guard settings of config.Config: every guard off, or every guard on.
GuardsOff ==
  [Interval |-> 5, DefaultStopTimeout |-> 10, WatchtowerCooldown |-> 0,
   WatchtowerScope |-> "all", GracePeriod |-> 0, BackupLabel |-> "",
   UnhealthyThreshold |-> 1]
GuardsOn ==
  [Interval |-> 5, DefaultStopTimeout |-> 10, WatchtowerCooldown |-> 10,
   WatchtowerScope |-> "affected", GracePeriod |-> 10, BackupLabel |-> "backup.stop",
   UnhealthyThreshold |-> 2]
GuardianConfigs == {GuardsOff, GuardsOn}

\* Ages (seconds since the last stop) the runtime may report for a container.
FinishedAges == {5, 10, 20}

VARIABLES
  cfg,        \* TrackerConfig of the RestartTracker
  now,        \* clock.Now(), seconds
  history,    \* RestartTracker.history: container id -> ContainerHistory
  recorded,   \* direct calls: per id, RecordRestart calls since the entry was created
  opened,     \* direct calls: ids whose circuit a ShouldRestart opened, not Reset since
  ret,        \* direct calls: the latest call, what it returned and what it found
  gcfg,       \* Guardian.cfg: the settings read by the handler and the guards
  labels,     \* runtime: container id -> label map
  unhealthy,  \* runtime: ids whose health status is unhealthy
  dispatch,   \* position of the event-dispatch task in runEventDriven
  timers,     \* every time.AfterFunc timer created by debounce, in creation order
  debounceTimers,  \* Guardian.debounceTimers: key -> index of the stored timer
  task,       \* per task (0: dispatch task, i: goroutine of timer i): its handler pass
              \* (seen: what the backup guard went by first in this pass)
  cache,      \* Guardian.orchestratorCached, orchestratorEvents, backupRunning
  called,     \* runtime calls issued by the latest step
  emitted,    \* notifications sent by the latest step
  dep,        \* dependency recovery: the runtime's containers and the resolver's pass
  watch       \* docker.Watcher: the goroutine of Watch, its channel, the context

trackerVars == <<cfg, now, history, recorded, opened, ret>>
guardianVars ==
  <<gcfg, labels, unhealthy, dispatch, timers, debounceTimers, task, cache, called, emitted,
    dep, watch>>
vars ==
  <<cfg, now, history, recorded, opened, ret,
    gcfg, labels, unhealthy, dispatch, timers, debounceTimers, task, cache, called, emitted,
    dep, watch>>

Min(x, y) == IF x < y THEN x ELSE y

\* ------------------------------------------------------------ tracker.go
\* DefaultTrackerConfig: the time a container has to stay healthy.
DefaultBackoffResetAfter == 600

TrackerConfig ==
  {[BackoffMultiplier |-> b.BackoffMultiplier, BackoffMax |-> b.BackoffMax,
    BackoffResetAfter |-> DefaultBackoffResetAfter,
    RestartBudget |-> n, RestartWindow |-> w] : b \in Backoffs, n \in Budgets, w \in Windows}

TotalRecorded == recorded["a"] + recorded["b"]

ContainerHistory ==
  [Restarts |-> << >>, BackoffUntil |-> 0, BackoffDelay |-> 0, CircuitOpen |-> FALSE,
   UnhealthyCount |-> 0]

SkipNone == "none"
SkipBackoff == "backoff"
SkipCircuit == "circuit"

getOrCreate(hist, id) ==
  IF id \in DOMAIN hist THEN hist
  ELSE [i \in DOMAIN hist \cup {id} |-> IF i = id THEN ContainerHistory ELSE hist[i]]

\* Slip: a restart exactly one window old still counts.
Keep_Inclusive(t, cutoff) == t >= cutoff

Keep(t, cutoff) == t > cutoff

\* Slip: the history is never compacted.
pruneOld_Never(c, t, rs) == rs

pruneOld(c, t, rs) ==
  IF c.RestartWindow <= 0 THEN rs
  ELSE SelectSeq(rs, LAMBDA x : Keep(x, t - c.RestartWindow))

\* Slip: the circuit closes again by itself once the window has emptied.
Decide_HalfOpen(c, h, t) ==
  IF h.CircuitOpen /\ Len(h.Restarts) >= c.RestartBudget
  THEN [allowed |-> FALSE, reason |-> SkipCircuit, open |-> TRUE]
  ELSE IF t < h.BackoffUntil THEN [allowed |-> FALSE, reason |-> SkipBackoff, open |-> FALSE]
  ELSE IF c.RestartBudget > 0 /\ Len(h.Restarts) >= c.RestartBudget
       THEN [allowed |-> FALSE, reason |-> SkipCircuit, open |-> TRUE]
  ELSE [allowed |-> TRUE, reason |-> SkipNone, open |-> FALSE]

\* Slip: the budget comparison is off by one.
Decide_OffByOne(c, h, t) ==
  IF h.CircuitOpen THEN [allowed |-> FALSE, reason |-> SkipCircuit, open |-> TRUE]
  ELSE IF t < h.BackoffUntil THEN [allowed |-> FALSE, reason |-> SkipBackoff, open |-> FALSE]
  ELSE IF c.RestartBudget > 0 /\ Len(h.Restarts) > c.RestartBudget
       THEN [allowed |-> FALSE, reason |-> SkipCircuit, open |-> TRUE]
  ELSE [allowed |-> TRUE, reason |-> SkipNone, open |-> FALSE]

\* Slip: the budget is checked before the backoff.
Decide_BudgetFirst(c, h, t) ==
  IF h.CircuitOpen THEN [allowed |-> FALSE, reason |-> SkipCircuit, open |-> TRUE]
  ELSE IF c.RestartBudget > 0 /\ Len(h.Restarts) >= c.RestartBudget
       THEN [allowed |-> FALSE, reason |-> SkipCircuit, open |-> TRUE]
  ELSE IF t < h.BackoffUntil THEN [allowed |-> FALSE, reason |-> SkipBackoff, open |-> FALSE]
  ELSE [allowed |-> TRUE, reason |-> SkipNone, open |-> FALSE]

\* The decision of ShouldRestart on a pruned history entry h at time t.
Decide(c, h, t) ==
  IF h.CircuitOpen THEN [allowed |-> FALSE, reason |-> SkipCircuit, open |-> TRUE]
  ELSE IF t < h.BackoffUntil THEN [allowed |-> FALSE, reason |-> SkipBackoff, open |-> FALSE]
  ELSE IF c.RestartBudget > 0 /\ Len(h.Restarts) >= c.RestartBudget
       THEN [allowed |-> FALSE, reason |-> SkipCircuit, open |-> TRUE]
  ELSE [allowed |-> TRUE, reason |-> SkipNone, open |-> FALSE]

ShouldRestart(c, hist, id, t) ==
  LET h0 == getOrCreate(hist, id)
      h1 == [h0[id] EXCEPT !.Restarts = pruneOld(c, t, @)]
      d  == Decide(c, h1, t)
  IN [history |-> [h0 EXCEPT ![id] = [h1 EXCEPT !.CircuitOpen = d.open]],
      allowed |-> d.allowed, reason |-> d.reason]

\* Slip: the cap on the delay is missing.
NextDelay_Uncapped(c, delay) ==
  IF delay = 0 THEN InitialBackoff ELSE delay * c.BackoffMultiplier

NextDelay(c, delay) ==
  LET grown == IF delay = 0 THEN InitialBackoff ELSE delay * c.BackoffMultiplier
  IN IF grown > c.BackoffMax THEN c.BackoffMax ELSE grown

RecordRestart(c, hist, id, t) ==
  LET h0 == getOrCreate(hist, id)
      d  == NextDelay(c, h0[id].BackoffDelay)
  IN [h0 EXCEPT ![id] = [@ EXCEPT !.Restarts = Append(@, t),
                                  !.BackoffDelay = d,
                                  !.BackoffUntil = t + d]]

\* RecordUnhealthy(id, threshold): count one more unhealthy detection; the
\* answer is whether the threshold is reached.
RecordUnhealthy(hist, id, threshold) ==
  LET h0 == getOrCreate(hist, id)
  IN [history |-> [h0 EXCEPT ![id].UnhealthyCount = @ + 1],
      reached |-> h0[id].UnhealthyCount + 1 >= threshold]

UnhealthyCount(hist, id) == IF id \in DOMAIN hist THEN hist[id].UnhealthyCount ELSE 0

ResetUnhealthy(hist, id) ==
  IF id \in DOMAIN hist THEN [hist EXCEPT ![id].UnhealthyCount = 0] ELSE hist

\* Slip: Reset closes the circuit and empties the restarts but keeps the backoff.
Reset_KeepBackoff(hist, id) ==
  IF id \notin DOMAIN hist THEN hist
  ELSE [hist EXCEPT ![id] = [@ EXCEPT !.CircuitOpen = FALSE, !.Restarts = << >>]]

\* Slip: Reset empties the whole map.
Reset_All(hist, id) == << >>

Reset(hist, id) == [i \in DOMAIN hist \ {id} |-> hist[i]]

IsCircuitOpen(hist, id) == id \in DOMAIN hist /\ hist[id].CircuitOpen

BackoffRemaining(hist, id, t) ==
  IF id \notin DOMAIN hist THEN 0
  ELSE IF hist[id].BackoffUntil - t < 0 THEN 0
  ELSE hist[id].BackoffUntil - t

CircuitOpenCount(hist) == Cardinality({i \in DOMAIN hist : hist[i].CircuitOpen})

\* ----------------------------------------------------- unhealthy handler
\* containerAction: the action label when it is one of the four known values.
\* Slip: the value notify is not among the recognised actions.
containerAction_NoNotify(l) ==
  IF "autoheal.action" \in DOMAIN l /\ l["autoheal.action"] \in {"restart", "stop", "none"}
  THEN l["autoheal.action"]
  ELSE "restart"

\* Slip: the value none is not among the recognised actions.
containerAction_NoNone(l) ==
  IF "autoheal.action" \in DOMAIN l /\ l["autoheal.action"] \in {"restart", "stop", "notify"}
  THEN l["autoheal.action"]
  ELSE "restart"

containerAction(l) ==
  IF "autoheal.action" \in DOMAIN l /\ l["autoheal.action"] \in {"restart", "stop", "notify", "none"}
  THEN l["autoheal.action"]
  ELSE "restart"

\* strconv.Atoi on the label values that occur: decimal digits parse, the rest fail.
Atoi(str) ==
  IF str = "30" THEN [ok |-> TRUE, val |-> 30] ELSE [ok |-> FALSE, val |-> 0]

\* Slip: the label is not looked at.
stopTimeout_Default(g, l) == g.DefaultStopTimeout

stopTimeout(g, l) ==
  IF "autoheal.stop.timeout" \in DOMAIN l /\ Atoi(l["autoheal.stop.timeout"]).ok
  THEN Atoi(l["autoheal.stop.timeout"]).val
  ELSE g.DefaultStopTimeout

\* One increment of the counter docker_guardian_skips_total{container, reason}.
SkipsTotal(name, reason) == [metric |-> "skips_total", container |-> name, reason |-> reason]

Note(verb, critical, text, id) ==
  [verb |-> verb, critical |-> critical, text |-> text, id |-> id]

\* ------------------------------------------------------------- guards.go
\* The guards' fields of a new Guardian: the per-cycle caches, the map
\* orchestrationEvents (name -> latest event time) and the number of
\* pruneOrchestrationEvents goroutines that were started and have not run.
EmptyCache ==
  [orchestratorCached |-> FALSE, orchestratorEvents |-> {}, backupRunning |-> "nil",
   orchestrationEvents |-> << >>, pruners |-> 0]

\* What the runtime may answer to ContainerEvents: an error, or the names
\* of the containers that have events inside the cooldown.
EventAnswers ==
  {[err |-> TRUE, names |-> {}], [err |-> FALSE, names |-> {}],
   [err |-> FALSE, names |-> {"a"}], [err |-> FALSE, names |-> {"other"}]}

\* What the runtime may answer to ContainerFinishedAt.
FinishedAnswers ==
  {[err |-> TRUE, age |-> 0]} \cup {[err |-> FALSE, age |-> x] : x \in FinishedAges}

\* What RunningContainers shows: an error, a backup container, or none.
RunningAnswers == {"err", "backup", "none"}

fetchOrchestrationEvents(ch, q) ==
  IF ch.orchestratorCached THEN ch
  ELSE [ch EXCEPT !.orchestratorCached = TRUE,
                  !.orchestratorEvents = IF q.err THEN {} ELSE q.names]

isOrchestratorActive(ch) == ch.orchestratorEvents # {}

\* Slip: any event counts for any container.
isContainerInOrchestration_Any(ch, name) == ch.orchestratorEvents # {}

isContainerInOrchestration(ch, name) == name \in ch.orchestratorEvents

isBackupManaged(g, l) == g.BackupLabel # "" /\ g.BackupLabel \in DOMAIN l

checkBackupRunning(r) == r = "backup"

cachedBackupRunning(ch, r) ==
  IF ch.backupRunning # "nil" THEN ch
  ELSE [ch EXCEPT !.backupRunning = IF checkBackupRunning(r) THEN "true" ELSE "false"]

\* Slip: a stop exactly the grace period ago still counts.
withinGrace_Inclusive(g, fin) == ~fin.err /\ fin.age <= g.GracePeriod

\* The grace test of shouldSkip on the answer of ContainerFinishedAt.
withinGrace(g, fin) == ~fin.err /\ fin.age < g.GracePeriod

\* What the backup guard went by with caches c: nothing for a container
\* that is not backup-managed, else the answer of cachedBackupRunning.
Consulted(g, l, c) == IF isBackupManaged(g, l) THEN c.backupRunning ELSE "nil"

\* Slip: the grace guard is tried before the orchestration guard.
shouldSkip_GraceFirst(g, ch, id, l, q, fin, r) ==
  LET grace == g.GracePeriod > 0 /\ withinGrace(g, fin)
      a0 == IF g.GracePeriod > 0 THEN {"finishedAt"} ELSE {}
      c1 == IF g.WatchtowerCooldown > 0 THEN fetchOrchestrationEvents(ch, q) ELSE ch
      a1 == IF g.WatchtowerCooldown > 0 /\ ~ch.orchestratorCached THEN a0 \cup {"events"} ELSE a0
      orch == /\ g.WatchtowerCooldown > 0
              /\ IF g.WatchtowerScope = "affected"
                 THEN isContainerInOrchestration(c1, id)
                 ELSE isOrchestratorActive(c1)
      c2 == IF isBackupManaged(g, l) THEN cachedBackupRunning(c1, r) ELSE c1
      a3 == IF isBackupManaged(g, l) /\ c1.backupRunning = "nil"
            THEN a1 \cup {"running"} ELSE a1
  IN IF grace
     THEN [skip |-> TRUE, cache |-> ch, asked |-> a0, counted |-> << >>, backup |-> "nil",
           notes |-> <<Note("Skip", FALSE, "skipped - grace period", id)>>]
     ELSE IF orch
     THEN [skip |-> TRUE, cache |-> c1, asked |-> a1, counted |-> << >>, backup |-> "nil",
           notes |-> <<Note("Skip", FALSE, "skipped - orchestration activity", id)>>]
     ELSE IF isBackupManaged(g, l) /\ c2.backupRunning = "true"
     THEN [skip |-> TRUE, cache |-> c2, asked |-> a3, counted |-> << >>, backup |-> Consulted(g, l, c2),
           notes |-> <<Note("Skip", FALSE, "skipped - backup running", id)>>]
     ELSE [skip |-> FALSE, cache |-> c2, asked |-> a3, counted |-> << >>, backup |-> Consulted(g, l, c2), notes |-> << >>]

\* shouldSkip with the runtime's answers q (events), fin (finishedAt) and
\* r (running list): the verdict, the skip notification, the caches, the
\* queries made to the runtime and the increments of skips_total (none).
shouldSkip(g, ch, id, l, q, fin, r) ==
  LET c1 == IF g.WatchtowerCooldown > 0 THEN fetchOrchestrationEvents(ch, q) ELSE ch
      a1 == IF g.WatchtowerCooldown > 0 /\ ~ch.orchestratorCached THEN {"events"} ELSE {}
      orch == /\ g.WatchtowerCooldown > 0
              /\ IF g.WatchtowerScope = "affected"
                 THEN isContainerInOrchestration(c1, id)
                 ELSE isOrchestratorActive(c1)
      a2 == IF g.GracePeriod > 0 THEN a1 \cup {"finishedAt"} ELSE a1
      grace == g.GracePeriod > 0 /\ withinGrace(g, fin)
      c2 == IF isBackupManaged(g, l) THEN cachedBackupRunning(c1, r) ELSE c1
      a3 == IF isBackupManaged(g, l) /\ c1.backupRunning = "nil"
            THEN a2 \cup {"running"} ELSE a2
  IN IF orch
     THEN [skip |-> TRUE, cache |-> c1, asked |-> a1, counted |-> << >>, backup |-> "nil",
           notes |-> <<Note("Skip", FALSE, "skipped - orchestration activity", id)>>]
     ELSE IF grace
     THEN [skip |-> TRUE, cache |-> c1, asked |-> a2, counted |-> << >>, backup |-> "nil",
           notes |-> <<Note("Skip", FALSE, "skipped - grace period", id)>>]
     ELSE IF isBackupManaged(g, l) /\ c2.backupRunning = "true"
     THEN [skip |-> TRUE, cache |-> c2, asked |-> a3, counted |-> << >>, backup |-> Consulted(g, l, c2),
           notes |-> <<Note("Skip", FALSE, "skipped - backup running", id)>>]
     ELSE [skip |-> FALSE, cache |-> c2, asked |-> a3, counted |-> << >>, backup |-> Consulted(g, l, c2), notes |-> << >>]

\* ---------------------------------------------------------- dependency.go
\* The containers of the dependency runs: b shares the network namespace
\* of a, c that of b.
DepIds == {"a", "b", "c"}

\* HostConfig.NetworkMode, split where strings.HasPrefix / TrimPrefix split it.
NetworkMode(id) ==
  CASE id = "b" -> [prefix |-> "container:", rest |-> "a"]
    [] id = "c" -> [prefix |-> "container:", rest |-> "b"]
    [] OTHER -> [prefix |-> "", rest |-> "bridge"]

\* State.ExitCode of an exited container: 128 when it was killed by the
\* exit of its parent, 1 for a failure of its own.
ExitCodes == {1, 128}

\* Config.Labels of an inspected container.
DepLabels(l, id) == IF id \in DOMAIN l THEN l[id] ELSE NoLabels

\* The orders in which ExitedContainers may list the set S.
Listings(S) ==
  {q \in [1..Cardinality(S) -> S] : \A x \in S : \E i \in 1..Cardinality(S) : q[i] = x}

\* What ContainerStatus answers for a container whose status is st.
StatusAnswers(st) == {"err", st}

\* No dependency run: monitoring off, every container running.
NoDep ==
  [MonitorDependencies |-> FALSE, DependencyStartDelay |-> 0,
   status |-> [i \in DepIds |-> "running"], exitCode |-> [i \in DepIds |-> 0],
   pc |-> "idle", queue |-> << >>, cur |-> "", listed |-> {}, started |-> << >>,
   starts |-> [i \in DepIds |-> 0]]

\* --------------------------------------------------------- docker.Watcher
\* NewWatcher: the cap of the reconnect delay and the liveness window,
\* seconds; Watch: the first reconnect delay.
reconnectMax == 30
livenessWindow == 60
InitialReconnect == 1

NoEvent == [seq |-> 0, id |-> "", status |-> ""]

\* parseEvent: the ContainerEvent of a health_status message.  It never
\* returns nil.
parseEvent(m) == [seq |-> m.seq, id |-> m.id, status |-> m.status]

\* The watcher before Watch is called, in a run with a live context that is
\* not about the event stream: no goroutine, no connection.
NoWatch ==
  [pc |-> "off", ctx |-> "live", backoff |-> InitialReconnect, ch |-> << >>,
   chClosed |-> FALSE, evt |-> NoEvent, msgs |-> << >>, produced |-> 0,
   received |-> << >>, opens |-> 0, closures |-> 0, sound |-> FALSE,
   wasSound |-> FALSE, delivered |-> << >>, pass |-> FALSE, handled |-> {},
   lost |-> {}, scans |-> 0]

\* Slip: the selects have no case for the context.
ctxDone_Never(w) == FALSE

\* case <-ctx.Done() is ready.
ctxDone(w) == w.ctx = "done"

\* ------------------------------------------------------------------ state
\* What a tracker call found on entry: the accessors' answers before the call.
Found(hist, id, t) ==
  [open |-> IsCircuitOpen(hist, id),
   remaining |-> BackoffRemaining(hist, id, t),
   restarts |-> IF id \in DOMAIN hist THEN Len(hist[id].Restarts) ELSE 0]

NoRet ==
  [op |-> "none", id |-> "", allowed |-> FALSE, reason |-> SkipNone,
   pre |-> [open |-> FALSE, remaining |-> 0, restarts |-> 0]]

\* What an iteration of the handler's loop that ends before the tracker
\* leaves behind: the container it was about, and whether it ended at a
\* plain continue or at the return of shouldSkip (allowed: not skipped).
Passed(op, id, allowed) == [NoRet EXCEPT !.op = op, !.id = id, !.allowed = allowed]

IdleTask == [pc |-> "idle", queue |-> << >>, cur |-> "", action |-> "", timeout |-> 0,
             seen |-> "nil",
             decision |-> [allowed |-> FALSE, reason |-> SkipNone]]

TrackerInit ==
  /\ now = 0
  /\ history = << >>
  /\ recorded = [i \in Ids |-> 0]
  /\ opened = {}
  /\ ret = NoRet

\* The tracker configurations the Guardian is run with.
GuardianTrackerConfigs ==
  {c \in TrackerConfig : c.RestartWindow = 15 /\ c.RestartBudget = 1 /\ c.BackoffMax = 5}

\* Guardian.New and the entry of runEventDriven: the dispatch task is about
\* to make the initial full scan, no timer exists.
Init ==
  /\ cfg \in GuardianTrackerConfigs
  /\ TrackerInit
  /\ gcfg \in GuardianConfigs
  /\ labels \in {l \in [Ids -> LabelSets] : l["b"] = NoLabels}
  /\ unhealthy \in {{}, {"a"}}
  /\ dispatch = "scan"
  /\ timers = << >>
  /\ debounceTimers = << >>
  /\ task = [i \in 0..MaxTimers |-> IF i = 0 THEN [IdleTask EXCEPT !.pc = "begin"] ELSE IdleTask]
  /\ cache = EmptyCache
  /\ called = << >>
  /\ emitted = << >>
  /\ dep = NoDep
  /\ watch = NoWatch

\* NewRestartTracker alone, with any configuration.
InitTracker ==
  /\ cfg \in TrackerConfig
  /\ TrackerInit
  /\ gcfg = GuardsOff
  /\ labels = [i \in Ids |-> NoLabels]
  /\ unhealthy = {}
  /\ dispatch = "scan"
  /\ timers = << >>
  /\ debounceTimers = << >>
  /\ task = [i \in 0..MaxTimers |-> IF i = 0 THEN [IdleTask EXCEPT !.pc = "begin"] ELSE IdleTask]
  /\ cache = EmptyCache
  /\ called = << >>
  /\ emitted = << >>
  /\ dep = NoDep
  /\ watch = NoWatch

\* ------------------------------------------- the tracker driven directly
Advance ==
  /\ now + Tick <= MaxClock
  /\ now' = now + Tick
  /\ UNCHANGED <<cfg, history, recorded, opened, ret>>
  /\ UNCHANGED guardianVars

CallShouldRestart(id) ==
  LET r == ShouldRestart(cfg, history, id, now)
  IN /\ history' = r.history
     /\ opened' = IF r.reason = SkipCircuit THEN opened \cup {id} ELSE opened
     /\ ret' = [op |-> "ShouldRestart", id |-> id, allowed |-> r.allowed,
                reason |-> r.reason, pre |-> Found(history, id, now)]
     /\ UNCHANGED <<cfg, now, recorded>>
     /\ UNCHANGED guardianVars

CallRecordRestart(id) ==
  /\ TotalRecorded < MaxRecords
  /\ history' = RecordRestart(cfg, history, id, now)
  /\ recorded' = [recorded EXCEPT ![id] = @ + 1]
  /\ ret' = [op |-> "RecordRestart", id |-> id, allowed |-> FALSE,
             reason |-> SkipNone, pre |-> Found(history, id, now)]
  /\ UNCHANGED <<cfg, now, opened>>
  /\ UNCHANGED guardianVars

CallReset(id) ==
  /\ history' = Reset(history, id)
  /\ recorded' = [recorded EXCEPT ![id] = 0]
  /\ opened' = opened \ {id}
  /\ ret' = [op |-> "Reset", id |-> id, allowed |-> FALSE,
             reason |-> SkipNone, pre |-> Found(history, id, now)]
  /\ UNCHANGED <<cfg, now>>
  /\ UNCHANGED guardianVars

NextTracker ==
  \/ Advance
  \/ \E id \in Ids : CallShouldRestart(id)
  \/ \E id \in Ids : CallRecordRestart(id)
  \/ \E id \in Ids : CallReset(id)

SpecTracker == InitTracker /\ [][NextTracker]_vars

\* ------------------------------------------------------------ guardian.go
\* Task 0 is the dispatch task, task i > 0 the goroutine of the i-th timer.
Tasks == DOMAIN task

\* UnhealthyContainers: the runtime lists the containers of S in its own
\* fixed order.
UnhealthyContainers(S) ==
  IF S = {} THEN << >>
  ELSE IF S = Ids THEN <<"a", "b">>
  ELSE <<CHOOSE x \in S : TRUE>>

debounceWindow(g) == IF g.Interval <= 0 THEN 5 ELSE g.Interval

\* The answers to draw for a runtime query: those of the runtime if the
\* query is made with these settings and caches, one placeholder if not.
Asked(made, answers) == IF made THEN answers ELSE {CHOOSE x \in answers : TRUE}

\* Task t goes on as record nxt on top of the timers tm.  With containers
\* left it stays in the loop of checkUnhealthy; with none left the pass
\* returns: the dispatch task enters its event loop, a timer's goroutine
\* deletes the entry of its key from the timer map.
Continue(t, nxt, tm) ==
  IF nxt.queue # << >>
  THEN /\ task' = [task EXCEPT ![t] = nxt]
       /\ timers' = tm
       /\ UNCHANGED <<dispatch, debounceTimers>>
  ELSE /\ task' = [task EXCEPT ![t] = IdleTask]
       /\ IF t = 0
          THEN /\ dispatch' = "loop"
               /\ timers' = tm
               /\ UNCHANGED debounceTimers
          ELSE /\ debounceTimers' =
                    [k \in DOMAIN debounceTimers \ {tm[t].key} |-> debounceTimers[k]]
               /\ timers' = [tm EXCEPT ![t].state = "done"]
               /\ UNCHANGED dispatch

\* The head of a pass: drop the per-cycle caches, list the unhealthy
\* containers (the listing may fail, and the pass returns).
Begin(t, tm) ==
  /\ cache' = [cache EXCEPT !.orchestratorCached = FALSE, !.backupRunning = "nil"]
  /\ \E err \in BOOLEAN :
       Continue(t, [IdleTask EXCEPT !.pc = "loop",
                                    !.queue = IF err THEN << >>
                                              ELSE UnhealthyContainers(unhealthy)], tm)
  /\ called' = << >>
  /\ emitted' = << >>
  /\ ret' = NoRet
  /\ UNCHANGED <<cfg, now, history, recorded, opened>>
  /\ UNCHANGED <<dep, watch, gcfg, labels, unhealthy>>

\* runEventDriven: the initial full scan.  No container of these runs
\* declares a dependency, so checkDependencyOrphans finds nothing to do.
fullScan ==
  /\ dispatch = "scan"
  /\ task[0].pc = "begin"
  /\ Begin(0, timers)

\* The function of time.AfterFunc starts in its own goroutine and enters
\* checkContainerByID.
TimerFire(i) ==
  /\ i \in DOMAIN timers
  /\ timers[i].state = "pending"
  /\ now >= timers[i].deadline
  /\ Begin(i, [timers EXCEPT ![i].state = "running", ![i].deadline = 0])

\* What the handler does with the tracker's refusal.
OnRefusal(reason, id) ==
  IF reason = SkipCircuit
  THEN <<Note("Action", TRUE, "circuit open (restart budget exhausted)", id)>>
  ELSE << >>

\* A handler that stops only at an open circuit.
Proceeds_UnlessCircuit(sr) == sr.reason # SkipCircuit

\* Whether the handler goes on to the runtime call with the tracker's answer.
Proceeds(sr) == sr.allowed

\* Slip: the tracker is asked before the label checks and the guards.
HistoryAfter_Asked(hist, sr, reached) == sr.history

\* The history after an iteration: that of ShouldRestart if the iteration
\* reached the call, the one before if it ended earlier.
HistoryAfter(hist, sr, reached) == IF reached THEN sr.history ELSE hist

\* One iteration of the loop of checkUnhealthy, from the label checks to the
\* answer of the tracker.  The State field of the listed summary is read
\* here only, so it is drawn here: running or restarting.
TaskEvaluate(t) ==
  /\ task[t].pc = "loop"
  /\ task[t].queue # << >>
  /\ \E state \in {"running", "restarting"} :
     LET c == [id |-> Head(task[t].queue), state |-> state]
         l == labels[c.id]
         action == containerAction(l)
         continue == [task[t] EXCEPT !.queue = Tail(@)]
     IN /\ called' = << >>
        /\ IF ("autoheal" \in DOMAIN l /\ l["autoheal"] = "False")
              \/ action = "none" \/ c.state = "restarting"
           THEN /\ Continue(t, continue, timers)
                /\ emitted' = << >>
                /\ ret' = Passed("continue", c.id, FALSE)
                /\ history' = HistoryAfter(history, ShouldRestart(cfg, history, c.id, now),
                                           FALSE)
                /\ UNCHANGED cache
           ELSE \E q \in Asked(gcfg.WatchtowerCooldown > 0 /\ ~cache.orchestratorCached,
                                EventAnswers),
                   fin \in Asked(gcfg.GracePeriod > 0, FinishedAnswers),
                   r \in Asked(isBackupManaged(gcfg, l) /\ cache.backupRunning = "nil",
                                RunningAnswers) :
                  LET sk == shouldSkip(gcfg, cache, c.id, l, q, fin, r)
                      sr == ShouldRestart(cfg, history, c.id, now)
                      seen == IF task[t].seen = "nil" THEN sk.backup ELSE task[t].seen
                      guarded == [continue EXCEPT !.seen = seen]
                  IN /\ cache' = sk.cache
                     /\ IF sk.skip
                        THEN /\ Continue(t, guarded, timers)
                             /\ emitted' = sk.notes
                             /\ ret' = Passed("shouldSkip", c.id, FALSE)
                             /\ history' = HistoryAfter(history, sr, FALSE)
                        ELSE IF action = "notify"
                        THEN /\ Continue(t, guarded, timers)
                             /\ emitted' = <<Note("Action", FALSE,
                                                  "found to be unhealthy (action=notify)", c.id)>>
                             /\ ret' = Passed("shouldSkip", c.id, TRUE)
                             /\ history' = HistoryAfter(history, sr, FALSE)
                        ELSE /\ history' = HistoryAfter(history, sr, TRUE)
                             /\ ret' = [op |-> "ShouldRestart", id |-> c.id,
                                        allowed |-> sr.allowed, reason |-> sr.reason,
                                        pre |-> Found(history, c.id, now),
                                        counted |-> IF sr.allowed THEN << >>
                                                    ELSE <<SkipsTotal(c.id, sr.reason)>>]
                             /\ IF Proceeds(sr)
                                THEN /\ task' = [task EXCEPT
                                           ![t].pc = "act", ![t].cur = c.id,
                                           ![t].seen = seen,
                                           ![t].action = action,
                                           ![t].timeout = stopTimeout(gcfg, l),
                                           ![t].decision = [allowed |-> sr.allowed,
                                                            reason |-> sr.reason]]
                                     /\ emitted' = << >>
                                     /\ UNCHANGED <<dispatch, timers, debounceTimers>>
                                ELSE /\ Continue(t, guarded, timers)
                                     /\ emitted' = OnRefusal(sr.reason, c.id)
  /\ UNCHANGED <<cfg, now, recorded, opened>>
  /\ UNCHANGED <<dep, watch, gcfg, labels, unhealthy>>

\* StopContainer or RestartContainer and the notification of its outcome.
\* A container that was restarted or stopped is no longer unhealthy.
TaskAct(t) ==
  /\ task[t].pc = "act"
  /\ \E ok \in BOOLEAN :
       /\ called' = <<[op |-> IF task[t].action = "stop" THEN "stop" ELSE "restart",
                       id |-> task[t].cur, timeout |-> task[t].timeout, ok |-> ok]>>
       /\ emitted' =
            <<Note("Action", FALSE,
                   IF task[t].action = "stop"
                   THEN IF ok THEN "Stopped (quarantined)." ELSE "Failed to stop (quarantine)!"
                   ELSE IF ok THEN "Successfully restarted the container!"
                        ELSE "Failed to restart the container!",
                   task[t].cur)>>
       /\ unhealthy' = IF ok THEN unhealthy \ {task[t].cur} ELSE unhealthy
  /\ task' = [task EXCEPT ![t].pc = "record"]
  /\ ret' = NoRet
  /\ UNCHANGED <<cfg, now, history, recorded, opened>>
  /\ UNCHANGED <<dep, watch, gcfg, labels, dispatch, timers, debounceTimers, cache>>

\* tracker.RecordRestart after the runtime call, then on to the next container.
TaskRecord(t) ==
  /\ task[t].pc = "record"
  /\ history' = RecordRestart(cfg, history, task[t].cur, now)
  /\ ret' = [op |-> "RecordRestart", id |-> task[t].cur, allowed |-> FALSE,
             reason |-> SkipNone, pre |-> Found(history, task[t].cur, now)]
  /\ Continue(t, [IdleTask EXCEPT !.pc = "loop", !.queue = Tail(task[t].queue),
                                    !.seen = task[t].seen], timers)
  /\ called' = << >>
  /\ emitted' = << >>
  /\ UNCHANGED <<cfg, now, recorded, opened>>
  /\ UNCHANGED <<dep, watch, gcfg, labels, unhealthy, cache>>

\* debounce(key, fn): stop the timer stored for the key, store a new one.
debounce(key) ==
  /\ timers' =
       Append(IF key \in DOMAIN debounceTimers /\ timers[debounceTimers[key]].state = "pending"
              THEN [timers EXCEPT ![debounceTimers[key]].state = "stopped",
                                  ![debounceTimers[key]].deadline = 0]
              ELSE timers,
              [key |-> key, deadline |-> now + debounceWindow(gcfg), state |-> "pending"])
  /\ debounceTimers' =
       [k \in DOMAIN debounceTimers \cup {key} |->
          IF k = key THEN Len(timers) + 1 ELSE debounceTimers[k]]

\* handleEvent, health_status: unhealthy.
HandleUnhealthy(id) ==
  /\ dispatch = "loop"
  /\ id \notin unhealthy
  /\ Len(timers) + 1 \in Tasks
  /\ unhealthy' = unhealthy \cup {id}
  /\ debounce(id)
  /\ called' = << >>
  /\ emitted' = << >>
  /\ ret' = NoRet
  /\ UNCHANGED <<cfg, now, history, recorded, opened>>
  /\ UNCHANGED <<dep, watch, gcfg, labels, dispatch, task, cache>>

\* handleEvent, health_status: healthy (of an unhealthy container, or of one
\* that was starting).
HandleHealthy(id) ==
  /\ dispatch = "loop"
  /\ unhealthy' = unhealthy \ {id}
  /\ history' = Reset(history, id)
  /\ ret' = [op |-> "Reset", id |-> id, allowed |-> FALSE,
             reason |-> SkipNone, pre |-> Found(history, id, now)]
  /\ called' = << >>
  /\ emitted' = << >>
  /\ UNCHANGED <<cfg, now, recorded, opened>>
  /\ UNCHANGED <<dep, watch, gcfg, labels, dispatch, timers, debounceTimers, task, cache>>

Tock(max) ==
  /\ now + Tick <= max
  /\ now' = now + Tick
  /\ called' = << >>
  /\ emitted' = << >>
  /\ ret' = NoRet
  /\ UNCHANGED <<cfg, history, recorded, opened>>
  /\ UNCHANGED <<dep, watch, gcfg, labels, unhealthy, dispatch, timers, debounceTimers, task, cache>>

ClockTick == Tock(MaxRunClock)

RaceTick == Tock(MaxRaceClock)

\* The tracker of a Guardian driven directly, the unhealthy counter
\* included (up to MaxUnhealthy detections per container).
InitCounters ==
  /\ cfg \in {c \in TrackerConfig :
               c.RestartWindow = 5 /\ c.RestartBudget = 2 /\ c.BackoffMax = 5}
  /\ TrackerInit
  /\ gcfg \in GuardianConfigs
  /\ labels = [i \in Ids |-> NoLabels]
  /\ unhealthy = {}
  /\ dispatch = "scan"
  /\ timers = << >>
  /\ debounceTimers = << >>
  /\ task = [i \in 0..MaxTimers |-> IF i = 0 THEN [IdleTask EXCEPT !.pc = "begin"] ELSE IdleTask]
  /\ cache = EmptyCache
  /\ called = << >>
  /\ emitted = << >>
  /\ dep = NoDep
  /\ watch = NoWatch

CallRecordUnhealthy(id) ==
  /\ UnhealthyCount(history, id) < MaxUnhealthy
  /\ LET r == RecordUnhealthy(history, id, gcfg.UnhealthyThreshold)
     IN /\ history' = r.history
        /\ ret' = [op |-> "RecordUnhealthy", id |-> id, allowed |-> r.reached,
                   reason |-> SkipNone, pre |-> Found(history, id, now)]
  /\ UNCHANGED <<cfg, now, recorded, opened>>
  /\ UNCHANGED guardianVars

CallResetUnhealthy(id) ==
  /\ history' = ResetUnhealthy(history, id)
  /\ ret' = [op |-> "ResetUnhealthy", id |-> id, allowed |-> FALSE,
             reason |-> SkipNone, pre |-> Found(history, id, now)]
  /\ UNCHANGED <<cfg, now, recorded, opened>>
  /\ UNCHANGED guardianVars

NextCounters ==
  \/ RaceTick
  \/ \E id \in Ids : CallShouldRestart(id)
  \/ \E id \in Ids : CallRecordRestart(id)
  \/ \E id \in Ids : CallReset(id)
  \/ \E id \in Ids : CallRecordUnhealthy(id)
  \/ \E id \in Ids : CallResetUnhealthy(id)

SpecCounters == InitCounters /\ [][NextCounters]_vars

Next ==
  \/ ClockTick
  \/ fullScan
  \/ \E i \in Tasks \ {0} : TimerFire(i)
  \/ \E t \in Tasks : TaskEvaluate(t)
  \/ \E t \in Tasks : TaskAct(t)
  \/ \E t \in Tasks : TaskRecord(t)
  \/ \E id \in Ids : HandleUnhealthy(id)
  \/ \E id \in Ids : HandleHealthy(id)

Spec == Init /\ [][Next]_vars

\* The Guardian with no guard configured, one restartable container (a) and
\* one that is only watched (b), run longer and with more timers.
InitRace ==
  /\ cfg \in GuardianTrackerConfigs
  /\ TrackerInit
  /\ gcfg = GuardsOff
  /\ labels = [i \in Ids |-> IF i = "a" THEN NoLabels ELSE NoneLabels]
  /\ unhealthy = {}
  /\ dispatch = "scan"
  /\ timers = << >>
  /\ debounceTimers = << >>
  /\ task = [i \in 0..MaxRaceTimers |-> IF i = 0 THEN [IdleTask EXCEPT !.pc = "begin"] ELSE IdleTask]
  /\ cache = EmptyCache
  /\ called = << >>
  /\ emitted = << >>
  /\ dep = NoDep
  /\ watch = NoWatch

NextRace ==
  \/ RaceTick
  \/ fullScan
  \/ \E i \in Tasks \ {0} : TimerFire(i)
  \/ \E t \in Tasks : TaskEvaluate(t)
  \/ \E t \in Tasks : TaskAct(t)
  \/ \E t \in Tasks : TaskRecord(t)
  \/ \E id \in Ids : HandleUnhealthy(id)
  \/ \E id \in Ids : HandleHealthy(id)

SpecRace == InitRace /\ [][NextRace]_vars

\* The Guardian with the backup guard alone, both containers carrying the
\* backup label.
InitBackup ==
  /\ cfg \in GuardianTrackerConfigs
  /\ TrackerInit
  /\ gcfg = [GuardsOff EXCEPT !.BackupLabel = "backup.stop"]
  /\ labels = [i \in Ids |-> OddLabels]
  /\ unhealthy \in {{}, {"a"}}
  /\ dispatch = "scan"
  /\ timers = << >>
  /\ debounceTimers = << >>
  /\ task = [i \in 0..MaxTimers |-> IF i = 0 THEN [IdleTask EXCEPT !.pc = "begin"] ELSE IdleTask]
  /\ cache = EmptyCache
  /\ called = << >>
  /\ emitted = << >>
  /\ dep = NoDep
  /\ watch = NoWatch

SpecBackup == InitBackup /\ [][Next]_vars

\* ------------------------------------- the Guardian and the event ledger
\* handleEvent, create or destroy: recordOrchestrationActivity stores the
\* event's time under the container's name and starts the pruning goroutine.
recordOrchestrationActivity(ch, name, ts) ==
  [ch EXCEPT !.orchestrationEvents =
                [n \in DOMAIN ch.orchestrationEvents \cup {name} |->
                   IF n = name THEN ts ELSE ch.orchestrationEvents[n]],
             !.pruners = @ + 1]

HandleCreate(name) ==
  /\ dispatch = "loop"
  /\ cache.pruners < MaxPruners
  /\ cache' = recordOrchestrationActivity(cache, name, now)
  /\ called' = << >>
  /\ emitted' = << >>
  /\ ret' = [NoRet EXCEPT !.op = "create", !.id = name]
  /\ UNCHANGED <<cfg, now, history, recorded, opened>>
  /\ UNCHANGED <<dep, watch, gcfg, labels, unhealthy, dispatch, timers, debounceTimers, task>>

\* The pruning goroutine: entries before now - cooldown are deleted.
pruneOrchestrationEvents ==
  /\ cache.pruners > 0
  /\ cache' = [cache EXCEPT
                 !.orchestrationEvents =
                    [n \in {m \in DOMAIN cache.orchestrationEvents :
                              ~(cache.orchestrationEvents[m] < now - gcfg.WatchtowerCooldown)}
                       |-> cache.orchestrationEvents[n]],
                 !.pruners = @ - 1]
  /\ called' = << >>
  /\ emitted' = << >>
  /\ ret' = [NoRet EXCEPT !.op = "prune"]
  /\ UNCHANGED <<cfg, now, history, recorded, opened>>
  /\ UNCHANGED <<dep, watch, gcfg, labels, unhealthy, dispatch, timers, debounceTimers, task>>

\* The runtime's event log holds the events it delivered on the stream:
\* ContainerEvents(now - cooldown, now) fails or names the containers with
\* an event in that window.
EventsInWindow ==
  {n \in DOMAIN cache.orchestrationEvents :
     cache.orchestrationEvents[n] >= now - gcfg.WatchtowerCooldown}

\* An iteration of the loop of checkUnhealthy against that runtime.
LedgerEvaluate(t) ==
  /\ TaskEvaluate(t)
  /\ (~cache.orchestratorCached /\ cache'.orchestratorCached) =>
        cache'.orchestratorEvents \in {{}, EventsInWindow}

LedgerTick == Tock(MaxLedgerClock)

\* The Guardian with the orchestration guard on (cooldown 5 s), two plain
\* containers, none unhealthy at the start.
InitLedger ==
  /\ cfg \in GuardianTrackerConfigs
  /\ TrackerInit
  /\ gcfg \in {[GuardsOff EXCEPT !.WatchtowerCooldown = 5, !.WatchtowerScope = s] :
                 s \in {"all", "affected"}}
  /\ labels = [i \in Ids |-> NoLabels]
  /\ unhealthy = {}
  /\ dispatch = "scan"
  /\ timers = << >>
  /\ debounceTimers = << >>
  /\ task = [i \in 0..MaxLedgerTimers |-> IF i = 0 THEN [IdleTask EXCEPT !.pc = "begin"] ELSE IdleTask]
  /\ cache = EmptyCache
  /\ called = << >>
  /\ emitted = << >>
  /\ dep = NoDep
  /\ watch = NoWatch

NextLedger ==
  \/ LedgerTick
  \/ fullScan
  \/ \E i \in Tasks \ {0} : TimerFire(i)
  \/ \E t \in Tasks : LedgerEvaluate(t)
  \/ \E t \in Tasks : TaskAct(t)
  \/ \E t \in Tasks : TaskRecord(t)
  \/ \E id \in Ids : HandleUnhealthy(id)
  \/ \E id \in Ids : HandleHealthy(id)
  \/ \E name \in Ids : HandleCreate(name)
  \/ pruneOrchestrationEvents

SpecLedger == InitLedger /\ [][NextLedger]_vars

\* ------------------------------------------------ dependency recovery
\* Slip: the listed container is not taken off the list.
DepNext_Again(d) == [d EXCEPT !.cur = "", !.pc = "loop"]

\* Slip: return where the loop has continue.
DepNext_Return(d) == [d EXCEPT !.queue = << >>, !.cur = "", !.pc = "idle"]

\* The resolver moves on to the next listed container, or the pass returns.
DepNext(d) ==
  [d EXCEPT !.queue = Tail(d.queue), !.cur = "",
            !.pc = IF Tail(d.queue) = << >> THEN "idle" ELSE "loop"]

DepRest == UNCHANGED <<cfg, now, history, recorded, opened, watch,
                       gcfg, labels, unhealthy, dispatch, timers, debounceTimers, task>>

\* A pass of runPolling with no unhealthy container: the caches are
\* dropped, checkUnhealthy finds nothing, checkDependencyOrphans lists the
\* exited containers (the listing may fail, and the pass returns).  With
\* the context done the select between two passes returns instead.
DepBegin ==
  /\ dep.pc = "idle"
  /\ ~ctxDone(watch)
  /\ cache' = [cache EXCEPT !.orchestratorCached = FALSE, !.backupRunning = "nil"]
  /\ LET exited == {i \in DepIds : dep.status[i] = "exited"}
     IN IF ~dep.MonitorDependencies
        THEN dep' = [dep EXCEPT !.listed = {}, !.started = << >>]
        ELSE \E err \in BOOLEAN :
               IF err \/ exited = {}
               THEN dep' = [dep EXCEPT !.listed = {}, !.started = << >>]
               ELSE \E order \in Listings(exited) :
                      dep' = [dep EXCEPT !.pc = "loop", !.queue = order,
                                         !.listed = exited, !.started = << >>]
  /\ called' = << >>
  /\ emitted' = << >>
  /\ ret' = [NoRet EXCEPT !.op = "pass"]
  /\ DepRest

\* One iteration of the loop of checkDependencyOrphans, from InspectContainer
\* to the start of the wait.
DepEvaluate ==
  /\ dep.pc = "loop"
  /\ LET c == Head(dep.queue)
         mode == NetworkMode(c)
         l == DepLabels(labels, c)
     IN \E inspectErr \in BOOLEAN :
          IF inspectErr \/ mode.prefix # "container:"
          THEN /\ dep' = DepNext(dep)
               /\ emitted' = << >>
               /\ ret' = [NoRet EXCEPT !.op = "inspect", !.id = c]
               /\ UNCHANGED cache
          ELSE \E ps \in StatusAnswers(dep.status[mode.rest]) :
                 IF ps # "running"
                 THEN /\ dep' = DepNext(dep)
                      /\ emitted' = << >>
                      /\ ret' = [NoRet EXCEPT !.op = "parent", !.id = c]
                      /\ UNCHANGED cache
                 ELSE \E q \in Asked(gcfg.WatchtowerCooldown > 0 /\ ~cache.orchestratorCached,
                                     EventAnswers),
                         fin \in Asked(gcfg.GracePeriod > 0, FinishedAnswers),
                         r \in Asked(isBackupManaged(gcfg, l) /\ cache.backupRunning = "nil",
                                     RunningAnswers) :
                        LET sk == shouldSkip(gcfg, cache, c, l, q, fin, r)
                        IN /\ cache' = sk.cache
                           /\ emitted' = sk.notes
                           /\ ret' = Passed("shouldSkip", c, ~sk.skip)
                           /\ dep' = IF sk.skip THEN DepNext(dep)
                                     ELSE [dep EXCEPT
                                             !.cur = c,
                                             !.pc = IF dep.DependencyStartDelay > 0
                                                    THEN "wait" ELSE "recheck"]
  /\ called' = << >>
  /\ DepRest

\* The start delay is over: the parent's status is asked again.
DepWake ==
  /\ dep.pc = "wait"
  /\ \E ps \in StatusAnswers(dep.status[NetworkMode(dep.cur).rest]) :
       dep' = IF ps # "running" THEN DepNext(dep) ELSE [dep EXCEPT !.pc = "recheck"]
  /\ called' = << >>
  /\ emitted' = << >>
  /\ ret' = [NoRet EXCEPT !.op = "wake", !.id = dep.cur]
  /\ UNCHANGED cache
  /\ DepRest

\* Slip: the wait's case for the context has continue for return.
DepStop_Continue(d) == DepNext(d)

\* return out of the loop: the rest of the list is dropped.
DepStop(d) == [d EXCEPT !.pc = "stopped", !.queue = << >>, !.cur = ""]

\* ctx.Done during the wait (the context is cancelled now, or was
\* before): checkDependencyOrphans returns and the run loop ends.
DepCancel ==
  /\ dep.pc = "wait"
  /\ dep' = DepStop(dep)
  /\ watch' = [watch EXCEPT !.ctx = "done"]
  /\ called' = << >>
  /\ emitted' = << >>
  /\ ret' = [NoRet EXCEPT !.op = "cancel", !.id = dep.cur]
  /\ UNCHANGED cache
  /\ UNCHANGED <<cfg, now, history, recorded, opened,
                 gcfg, labels, unhealthy, dispatch, timers, debounceTimers, task>>

\* runPolling, case <-ctx.Done() between two passes: return nil.
PollingReturns ==
  /\ dep.pc = "idle"
  /\ ctxDone(watch)
  /\ dep' = [dep EXCEPT !.pc = "stopped"]
  /\ called' = << >>
  /\ emitted' = << >>
  /\ ret' = [NoRet EXCEPT !.op = "return"]
  /\ UNCHANGED cache
  /\ DepRest

\* Slip: the answer of the child's re-check is not looked at.
Recovered_Never(cs) == FALSE

\* The test on the answer of the child's re-check: it succeeded and the
\* status is no longer exited.
Recovered(cs) == cs # "err" /\ cs # "exited"

\* The child's status is asked again; unless it is known to have left
\* exited, StartContainer is called and its outcome notified.  The count
\* of starts is kept up to one past the restart budget.
DepStart ==
  /\ dep.pc = "recheck"
  /\ \E cs \in StatusAnswers(dep.status[dep.cur]) :
       IF Recovered(cs)
       THEN /\ dep' = DepNext(dep)
            /\ called' = << >>
            /\ emitted' = << >>
            /\ ret' = [NoRet EXCEPT !.op = "recovered", !.id = dep.cur]
       ELSE \E ok \in BOOLEAN :
              /\ called' = <<[op |-> "start", id |-> dep.cur, timeout |-> 0, ok |-> ok]>>
              /\ emitted' =
                   <<Note("Action", FALSE,
                          IF ok THEN "orphaned (parent running). Successfully started!"
                          ELSE "orphaned (parent running). Failed to start!", dep.cur)>>
              /\ ret' = [op |-> "start", id |-> dep.cur, allowed |-> cs = "exited",
                         reason |-> SkipNone, pre |-> NoRet.pre, answer |-> cs]
              /\ dep' = [DepNext(dep) EXCEPT
                           !.status[dep.cur] = IF ok THEN "running" ELSE @,
                           !.exitCode[dep.cur] = IF ok THEN 0 ELSE @,
                           !.started = Append(@, dep.cur),
                           !.starts[dep.cur] = Min(@ + 1, cfg.RestartBudget + 1)]
  /\ UNCHANGED cache
  /\ DepRest

\* The runtime: a running container exits, with one of the exit codes.
DepExit(id) ==
  /\ dep.status[id] = "running"
  /\ \E code \in ExitCodes :
       dep' = [dep EXCEPT !.status[id] = "exited", !.exitCode[id] = code]
  /\ called' = << >>
  /\ emitted' = << >>
  /\ ret' = [NoRet EXCEPT !.op = "exit", !.id = id]
  /\ UNCHANGED cache
  /\ DepRest

\* The runtime: an exited container is running again without the resolver
\* (its restart policy, or an operator).
DepRecover(id) ==
  /\ dep.status[id] = "exited"
  /\ dep' = [dep EXCEPT !.status[id] = "running", !.exitCode[id] = 0]
  /\ called' = << >>
  /\ emitted' = << >>
  /\ ret' = [NoRet EXCEPT !.op = "recover", !.id = id]
  /\ UNCHANGED cache
  /\ DepRest

\* Guardian.New with the dependency settings; a is running or has exited,
\* b and c have exited.
InitDeps ==
  /\ cfg \in GuardianTrackerConfigs
  /\ TrackerInit
  /\ gcfg \in GuardianConfigs
  /\ labels = [i \in Ids |-> NoLabels]
  /\ unhealthy = {}
  /\ dispatch = "scan"
  /\ timers = << >>
  /\ debounceTimers = << >>
  /\ task = [i \in 0..MaxTimers |-> IF i = 0 THEN [IdleTask EXCEPT !.pc = "begin"] ELSE IdleTask]
  /\ cache = EmptyCache
  /\ called = << >>
  /\ emitted = << >>
  /\ watch = NoWatch
  /\ \E m \in BOOLEAN, d \in {0, 5}, sa \in {"running", "exited"}, cb, cc \in ExitCodes :
       dep = [NoDep EXCEPT
                !.MonitorDependencies = m, !.DependencyStartDelay = d,
                !.status = [i \in DepIds |-> IF i = "a" THEN sa ELSE "exited"],
                !.exitCode = [i \in DepIds |->
                                IF i = "a" THEN (IF sa = "exited" THEN 1 ELSE 0)
                                ELSE IF i = "b" THEN cb ELSE cc]]

NextDeps ==
  \/ DepBegin
  \/ DepEvaluate
  \/ DepWake
  \/ DepCancel
  \/ DepStart
  \/ \E id \in DepIds : DepExit(id)
  \/ \E id \in DepIds : DepRecover(id)

SpecDeps == InitDeps /\ [][NextDeps]_vars

\* The chain a <- b <- c with a running, b and c exited, no guard
\* configured, nothing else acting on the containers and no shutdown:
\* runPolling makes pass after pass.
InitChain ==
  /\ cfg \in GuardianTrackerConfigs
  /\ TrackerInit
  /\ gcfg = GuardsOff
  /\ labels = [i \in Ids |-> NoLabels]
  /\ unhealthy = {}
  /\ dispatch = "scan"
  /\ timers = << >>
  /\ debounceTimers = << >>
  /\ task = [i \in 0..MaxTimers |-> IF i = 0 THEN [IdleTask EXCEPT !.pc = "begin"] ELSE IdleTask]
  /\ cache = EmptyCache
  /\ called = << >>
  /\ emitted = << >>
  /\ watch = NoWatch
  /\ \E d \in {0, 5}, cb, cc \in ExitCodes :
       dep = [NoDep EXCEPT
                !.MonitorDependencies = TRUE, !.DependencyStartDelay = d,
                !.status = [i \in DepIds |-> IF i = "a" THEN "running" ELSE "exited"],
                !.exitCode = [i \in DepIds |->
                                IF i = "a" THEN 0 ELSE IF i = "b" THEN cb ELSE cc]]

NextChain ==
  \/ DepBegin
  \/ DepEvaluate
  \/ DepWake
  \/ DepStart

\* The steps in which the runtime answers: the listing succeeds, the
\* inspection and the parent's status query succeed, the start succeeds.
DepListed == DepBegin /\ dep'.pc = "loop"
DepProceeds == DepEvaluate /\ dep'.pc \in {"wait", "recheck"}
DepWoken == DepWake /\ dep'.pc = "recheck"
DepStarted == DepStart /\ called' # << >> /\ called'[1].ok

\* The loop of runPolling keeps running, and the runtime does not fail
\* for ever.
SpecChain ==
  /\ InitChain
  /\ [][NextChain]_vars
  /\ WF_vars(NextChain)
  /\ SF_vars(DepListed)
  /\ SF_vars(DepProceeds)
  /\ SF_vars(DepWoken)
  /\ SF_vars(DepStarted)

\* ------------------------------------ the event stream and its consumer
\* Fields of watch.  pc: position of the goroutine of Watch (top: head of
\* the loop, stream: select of streamEvents, send: select of the send,
\* after: streamEvents has returned, wait: select of the reconnect delay,
\* closed: returned, channel closed).  msgs: result.Messages of the open
\* connection.  produced: events the runtime has had so far.  received:
\* events taken from result.Messages, in order.  opens: calls of api.Events.
\* closures: disconnects met with the context live.  sound: the open
\* connection has delivered an event or has lasted the liveness window;
\* wasSound: the same of the connection that ended last.  delivered: events
\* the loop of runEventDriven has taken from the channel.  pass: a debounced
\* handler pass is due.  handled: unhealthy containers a handler pass has
\* listed since they turned unhealthy.  lost: unhealthy containers whose
\* event fell between two connections.  scans: calls of fullScan.
WatchRest ==
  UNCHANGED <<cfg, now, history, recorded, opened, ret, gcfg, labels, timers,
              debounceTimers, task, cache, called, emitted, dep>>

\* The channel is closed by the deferred close(ch) when the goroutine returns.
Returned(w) == [w EXCEPT !.pc = "closed", !.chClosed = TRUE, !.evt = NoEvent]

\* Slip: the delay is doubled without a cap.
nextBackoff_Uncapped(b) == b * 2

\* backoff *= 2, capped at reconnectMax.
nextBackoff(b) == IF b * 2 > reconnectMax THEN reconnectMax ELSE b * 2

\* Head of the loop of Watch: return if the context is done, else call
\* streamEvents, which opens the stream.
WatchTop ==
  /\ watch.pc = "top"
  /\ watch' = IF watch.ctx = "done" THEN Returned(watch)
              ELSE [watch EXCEPT !.pc = "stream", !.opens = @ + 1,
                                 !.sound = FALSE, !.msgs = << >>]
  /\ UNCHANGED <<unhealthy, dispatch>>
  /\ WatchRest

\* streamEvents, case msg, ok := <-result.Messages with ok.
StreamMessage ==
  /\ watch.pc = "stream"
  /\ watch.msgs # << >>
  /\ watch' = [watch EXCEPT !.pc = "send", !.evt = parseEvent(Head(watch.msgs)),
                            !.msgs = Tail(@), !.sound = TRUE,
                            !.received = Append(@, parseEvent(Head(watch.msgs)))]
  /\ UNCHANGED <<unhealthy, dispatch>>
  /\ WatchRest

\* Slip: a full channel makes the watcher drop the event and read on.
StreamSend_Drop(w) ==
  IF Len(w.ch) < ChanCap
  THEN {[w EXCEPT !.pc = "stream", !.evt = NoEvent, !.ch = Append(@, w.evt)]}
  ELSE {[w EXCEPT !.pc = "stream", !.evt = NoEvent]}

\* case ch <- *evt: the states the send can lead to.  With a free slot the
\* event enters the channel; with none the case is not ready.
StreamSend(w) ==
  IF Len(w.ch) < ChanCap
  THEN {[w EXCEPT !.pc = "stream", !.evt = NoEvent, !.ch = Append(@, w.evt)]}
  ELSE {}

Send ==
  /\ watch.pc = "send"
  /\ watch' \in StreamSend(watch)
  /\ UNCHANGED <<unhealthy, dispatch>>
  /\ WatchRest

\* The send's case <-ctx.Done(): streamEvents returns, the event is lost.
SendCancelled ==
  /\ watch.pc = "send"
  /\ ctxDone(watch)
  /\ watch' = [watch EXCEPT !.pc = "after", !.evt = NoEvent]
  /\ UNCHANGED <<unhealthy, dispatch>>
  /\ WatchRest

\* result.Messages is closed or result.Err delivers: the connection is
\* gone (at most max times in a run).
StreamEndWithin(max) ==
  /\ watch.pc = "stream"
  /\ watch.ctx = "live"
  /\ watch.closures < max
  /\ watch' = [watch EXCEPT !.pc = "after", !.msgs = << >>]
  /\ UNCHANGED <<unhealthy, dispatch>>
  /\ WatchRest

StreamEnd == StreamEndWithin(MaxDrops)

StreamFails == StreamEndWithin(MaxClosures)

\* streamEvents, case <-ctx.Done().
StreamCancelled ==
  /\ watch.pc = "stream"
  /\ ctxDone(watch)
  /\ watch' = [watch EXCEPT !.pc = "after", !.msgs = << >>]
  /\ UNCHANGED <<unhealthy, dispatch>>
  /\ WatchRest

\* The connection has been open for livenessWindow seconds.
StreamLives ==
  /\ watch.pc = "stream"
  /\ ~watch.sound
  /\ watch' = [watch EXCEPT !.sound = TRUE]
  /\ UNCHANGED <<unhealthy, dispatch>>
  /\ WatchRest

\* After streamEvents: return if the context is done, else wait backoff.
WatchAfter ==
  /\ watch.pc = "after"
  /\ watch' = IF watch.ctx = "done" THEN Returned(watch)
              ELSE [watch EXCEPT !.pc = "wait", !.closures = @ + 1,
                                 !.wasSound = watch.sound]
  /\ UNCHANGED <<unhealthy, dispatch>>
  /\ WatchRest

\* case <-time.After(backoff), then the next delay.
WaitElapsed ==
  /\ watch.pc = "wait"
  /\ watch' = [watch EXCEPT !.pc = "top", !.backoff = nextBackoff(@)]
  /\ UNCHANGED <<unhealthy, dispatch>>
  /\ WatchRest

\* The wait's case <-ctx.Done().
WaitCancelled ==
  /\ watch.pc = "wait"
  /\ ctxDone(watch)
  /\ watch' = Returned(watch)
  /\ UNCHANGED <<unhealthy, dispatch>>
  /\ WatchRest

\* SIGINT or SIGTERM: the context of Run is cancelled.
Cancel ==
  /\ watch.ctx = "live"
  /\ watch' = [watch EXCEPT !.ctx = "done"]
  /\ UNCHANGED <<unhealthy, dispatch>>
  /\ WatchRest

\* The runtime: the health status of a container changes.  The event is on
\* the stream only if a connection is open (Events is called with no
\* since option).
HealthChanges(id) ==
  /\ watch.produced < MaxEvents
  /\ LET m == [seq |-> watch.produced + 1, id |-> id,
               status |-> IF id \in unhealthy THEN "healthy" ELSE "unhealthy"]
     IN watch' = [watch EXCEPT
                    !.produced = @ + 1,
                    !.handled = @ \ {id},
                    !.lost = IF /\ id \notin unhealthy
                                /\ watch.pc \in {"after", "wait", "top"}
                                /\ watch.opens > 0
                             THEN @ \cup {id} ELSE @ \ {id},
                    !.msgs = IF watch.pc \in {"stream", "send"} THEN Append(@, m) ELSE @]
  /\ unhealthy' = IF id \in unhealthy THEN unhealthy \ {id} ELSE unhealthy \cup {id}
  /\ UNCHANGED dispatch
  /\ WatchRest

\* runEventDriven: the initial full scan; its handler pass lists every
\* unhealthy container.
WatchScan ==
  /\ dispatch = "scan"
  /\ watch.pc # "off"
  /\ watch' = [watch EXCEPT !.scans = @ + 1, !.handled = @ \cup unhealthy]
  /\ dispatch' = "loop"
  /\ UNCHANGED unhealthy
  /\ WatchRest

\* runEventDriven, case evt, ok := <-eventCh with ok: handleEvent.  An
\* unhealthy event schedules a debounced pass.
RunReceive ==
  /\ dispatch = "loop"
  /\ watch.ch # << >>
  /\ watch' = [watch EXCEPT !.ch = Tail(@), !.delivered = Append(@, Head(watch.ch)),
                            !.pass = @ \/ Head(watch.ch).status = "unhealthy"]
  /\ UNCHANGED <<unhealthy, dispatch>>
  /\ WatchRest

\* The function of the debounce timer: checkContainerByID unless the
\* context is done.
WatchPass ==
  /\ watch.pass
  /\ watch' = [watch EXCEPT !.pass = FALSE,
                            !.handled = IF watch.ctx = "live" THEN @ \cup unhealthy ELSE @]
  /\ UNCHANGED <<unhealthy, dispatch>>
  /\ WatchRest

\* runEventDriven returns nil: the channel is closed and empty, or the
\* context is done.
RunReturns ==
  /\ dispatch = "loop"
  /\ \/ watch.ch = << >> /\ watch.chClosed
     \/ ctxDone(watch)
  /\ dispatch' = "returned"
  /\ UNCHANGED <<unhealthy, watch>>
  /\ WatchRest

\* Run with a docker.Client: Watch has started its goroutine, the full scan
\* is about to run.
InitWatch ==
  /\ cfg \in GuardianTrackerConfigs
  /\ TrackerInit
  /\ gcfg = GuardsOff
  /\ labels = [i \in Ids |-> NoLabels]
  /\ unhealthy \in {{}, {"a"}}
  /\ dispatch = "scan"
  /\ timers = << >>
  /\ debounceTimers = << >>
  /\ task = [i \in 0..MaxTimers |-> IF i = 0 THEN [IdleTask EXCEPT !.pc = "begin"] ELSE IdleTask]
  /\ cache = EmptyCache
  /\ called = << >>
  /\ emitted = << >>
  /\ dep = NoDep
  /\ watch = [NoWatch EXCEPT !.pc = "top"]

NextWatch ==
  \/ WatchTop
  \/ StreamMessage
  \/ Send
  \/ SendCancelled
  \/ StreamEnd
  \/ StreamCancelled
  \/ StreamLives
  \/ WatchAfter
  \/ WaitElapsed
  \/ WaitCancelled
  \/ Cancel
  \/ \E id \in Ids : HealthChanges(id)
  \/ WatchScan
  \/ RunReceive
  \/ WatchPass
  \/ RunReturns

SpecWatch == InitWatch /\ [][NextWatch]_vars

\* Run until shutdown, in either mode.  With a docker.Client: the watcher,
\* the full scan and the event loop.  Without: runPolling over the chain
\* a <- b <- c with b and c exited and a start delay.
InitShutdown ==
  /\ cfg \in GuardianTrackerConfigs
  /\ TrackerInit
  /\ gcfg = GuardsOff
  /\ labels = [i \in Ids |-> NoLabels]
  /\ unhealthy = {}
  /\ dispatch = "scan"
  /\ timers = << >>
  /\ debounceTimers = << >>
  /\ task = [i \in 0..MaxTimers |-> IF i = 0 THEN [IdleTask EXCEPT !.pc = "begin"] ELSE IdleTask]
  /\ cache = EmptyCache
  /\ called = << >>
  /\ emitted = << >>
  /\ \/ /\ watch = [NoWatch EXCEPT !.pc = "top"]
        /\ dep = [NoDep EXCEPT !.pc = "off"]
     \/ /\ watch = NoWatch
        /\ dep = [NoDep EXCEPT
                    !.MonitorDependencies = TRUE, !.DependencyStartDelay = 5,
                    !.status = [i \in DepIds |-> IF i = "a" THEN "running" ELSE "exited"],
                    !.exitCode = [i \in DepIds |-> IF i = "a" THEN 0 ELSE 1]]

\* The steps of the goroutine of Watch.
WatcherRuns ==
  \/ WatchTop
  \/ StreamMessage
  \/ Send
  \/ SendCancelled
  \/ StreamCancelled
  \/ WatchAfter
  \/ WaitElapsed
  \/ WaitCancelled

\* The steps of the task that called Run, in event-driven mode.
RunEventDriven ==
  \/ WatchScan
  \/ RunReceive
  \/ RunReturns

\* The steps of the task that called Run, in polling mode.
RunPolling ==
  \/ DepBegin
  \/ DepEvaluate
  \/ DepWake
  \/ DepCancel
  \/ DepStart
  \/ PollingReturns

NextShutdown ==
  \/ WatcherRuns
  \/ RunEventDriven
  \/ RunPolling
  \/ WatchPass
  \/ StreamEnd
  \/ StreamLives
  \/ Cancel
  \/ \E id \in Ids : HealthChanges(id)

\* Every task that can take a step is scheduled; a timer that is due fires.
SpecShutdown ==
  /\ InitShutdown
  /\ [][NextShutdown]_vars
  /\ WF_vars(WatcherRuns)
  /\ WF_vars(RunEventDriven)
  /\ WF_vars(RunPolling)
  /\ WF_vars(WatchPass)

\* The goroutine of Watch against a runtime whose stream keeps failing and
\* has no event.
NextReconnect ==
  \/ WatchTop
  \/ StreamFails
  \/ StreamCancelled
  \/ StreamLives
  \/ WatchAfter
  \/ WaitElapsed
  \/ WaitCancelled
  \/ Cancel
  \/ WatchScan
  \/ RunReturns

SpecReconnect == InitWatch /\ [][NextReconnect]_vars

\* ------------------------------------------- the guards, cycle by cycle
\* The settings the guards read, in every combination of on and off.
GuardSettings ==
  {[Interval |-> 5, DefaultStopTimeout |-> 10, WatchtowerCooldown |-> c,
    WatchtowerScope |-> s, GracePeriod |-> g, BackupLabel |-> b,
    UnhealthyThreshold |-> 1] :
     c \in {0, 10}, s \in {"all", "affected"}, g \in {0, 10}, b \in {"", "backup.stop"}}

\* Guardian.New before the first pass of runPolling.
InitGuards ==
  /\ cfg \in GuardianTrackerConfigs
  /\ TrackerInit
  /\ gcfg \in GuardSettings
  /\ labels \in {l \in [Ids -> {NoLabels, OddLabels}] : l["b"] = NoLabels}
  /\ unhealthy = Ids
  /\ dispatch = "scan"
  /\ timers = << >>
  /\ debounceTimers = << >>
  /\ task = [i \in 0..MaxTimers |-> IF i = 0 THEN [IdleTask EXCEPT !.pc = "begin"] ELSE IdleTask]
  /\ cache = EmptyCache
  /\ called = << >>
  /\ emitted = << >>
  /\ dep = NoDep
  /\ watch = NoWatch

\* The head of a pass of runPolling: the per-cycle caches are dropped.
CycleStart ==
  /\ cache' = [cache EXCEPT !.orchestratorCached = FALSE, !.backupRunning = "nil"]
  /\ ret' = [NoRet EXCEPT !.op = "cycle"]
  /\ called' = << >>
  /\ emitted' = << >>
  /\ UNCHANGED <<cfg, now, history, recorded, opened>>
  /\ UNCHANGED <<dep, watch, gcfg, labels, unhealthy, dispatch, timers, debounceTimers, task>>

\* One call of shouldSkip inside the pass, with what the runtime answers
\* to the queries it may make.
CallShouldSkip(id) ==
  \E q \in EventAnswers, fin \in FinishedAnswers, r \in RunningAnswers :
    LET sk == shouldSkip(gcfg, cache, id, labels[id], q, fin, r)
    IN /\ cache' = sk.cache
       /\ emitted' = sk.notes
       /\ called' = << >>
       /\ ret' = [op |-> "shouldSkip", id |-> id, allowed |-> ~sk.skip, reason |-> SkipNone,
                  pre |-> cache, q |-> q, fin |-> fin, r |-> r,
                  asked |-> sk.asked, counted |-> sk.counted]
       /\ UNCHANGED <<cfg, now, history, recorded, opened>>
       /\ UNCHANGED <<dep, watch, gcfg, labels, unhealthy, dispatch, timers, debounceTimers, task>>

NextGuards ==
  \/ CycleStart
  \/ \E id \in Ids : CallShouldSkip(id)

SpecGuards == InitGuards /\ [][NextGuards]_vars

\* ================================================== RestartTracker claims
RECURSIVE Pow(_, _)
Pow(b, e) == IF e = 0 THEN 1 ELSE b * Pow(b, e - 1)

Entry(hist, id) == IF id \in DOMAIN hist THEN hist[id] ELSE ContainerHistory

\* The restarts of id that are younger than the window at the current time.
InWindow(id) == SelectSeq(Entry(history, id).Restarts, LAMBDA x : x > now - cfg.RestartWindow)

\* The time of the last RecordRestart(id): RecordRestart sets BackoffUntil = now + BackoffDelay.
LastRestart(id) == Entry(history, id).BackoffUntil - Entry(history, id).BackoffDelay

\* The fixed order of the decision, over a list rs of restarts that count.
Ordered(id, rs) ==
  /\ Entry(history, id).CircuitOpen =>
       /\ ret'.allowed = FALSE /\ ret'.reason = SkipCircuit
  /\ (~Entry(history, id).CircuitOpen /\ now < Entry(history, id).BackoffUntil) =>
       /\ ret'.allowed = FALSE /\ ret'.reason = SkipBackoff
       /\ ~history'[id].CircuitOpen
  /\ (~Entry(history, id).CircuitOpen /\ now >= Entry(history, id).BackoffUntil
        /\ cfg.RestartBudget > 0 /\ Len(rs) >= cfg.RestartBudget) =>
       /\ ret'.allowed = FALSE /\ ret'.reason = SkipCircuit
       /\ history'[id].CircuitOpen
  /\ (~Entry(history, id).CircuitOpen /\ now >= Entry(history, id).BackoffUntil
        /\ ~(cfg.RestartBudget > 0 /\ Len(rs) >= cfg.RestartBudget)) =>
       /\ ret'.allowed = TRUE /\ ret'.reason = SkipNone
       /\ ~history'[id].CircuitOpen
  /\ history'[id].Restarts = rs
  /\ id \notin DOMAIN history => (ret'.allowed = TRUE /\ ret'.reason = SkipNone)

\* The restarts of id that are not older than the window at the current time.
NotOlder(id) == SelectSeq(Entry(history, id).Restarts, LAMBDA x : x >= now - cfg.RestartWindow)

\* C3 (as stated): ShouldRestart first prunes the restarts older than
\* now - window, whatever the window (a restart exactly at now - window may
\* go or stay), then decides circuit, backoff, budget, allowed in that order.
C3_AsStated ==
  [][\A id \in Ids : CallShouldRestart(id) =>
       (Ordered(id, InWindow(id)) \/ Ordered(id, NotOlder(id)))]_vars

\* C3 (amended): with window > 0 ShouldRestart first drops every restart at
\* or before now - window, with window <= 0 it drops none; it then returns
\* (false, circuit) if circuitOpen, else (false, backoff) if now < backoffUntil,
\* else opens the circuit and returns (false, circuit) if budget > 0 and the
\* remaining restarts number at least budget, else (true, none).  An id never
\* seen before gets (true, none).
C3_DecisionOrder ==
  [][\A id \in Ids : CallShouldRestart(id) =>
       Ordered(id, IF cfg.RestartWindow > 0 THEN InWindow(id)
                   ELSE Entry(history, id).Restarts)]_vars

\* A call that pruned a full budget of restarts, the last of them lying
\* exactly on the edge of the window, and then allowed the restart.
C3_Witness ==
  /\ ret.op = "ShouldRestart" /\ ret.allowed /\ ~ret.pre.open
  /\ cfg.RestartBudget > 0 /\ ret.pre.restarts >= cfg.RestartBudget
  /\ history[ret.id].Restarts = << >>
  /\ cfg.RestartWindow > 0
  /\ now - cfg.RestartWindow = LastRestart(ret.id)

\* C4: once the circuit of an id is open it stays open, and every
\* ShouldRestart(id) returns (false, circuit), until Reset(id).
C4_CircuitLatched ==
  [][\A id \in Ids : (IsCircuitOpen(history, id) /\ ~CallReset(id)) =>
       /\ IsCircuitOpen(history', id)
       /\ CallShouldRestart(id) => (ret'.allowed = FALSE /\ ret'.reason = SkipCircuit)]_vars

\* The circuit answered circuit although every restart has aged out of the
\* window and the backoff has expired.
C4_Witness ==
  /\ ret.op = "ShouldRestart" /\ ret.reason = SkipCircuit /\ ret.pre.open
  /\ ret.pre.remaining = 0
  /\ cfg.RestartWindow > 0
  /\ history[ret.id].Restarts = << >>
  /\ now >= history[ret.id].BackoffUntil

\* B = budget restarts have been recorded for id and all of them are still
\* inside the window.
BudgetUsed(id) ==
  /\ cfg.RestartBudget > 0
  /\ recorded[id] = cfg.RestartBudget
  /\ Len(pruneOld(cfg, now, Entry(history, id).Restarts)) = cfg.RestartBudget

CountMatches == CircuitOpenCount(history) = Cardinality(opened)

\* C5 (as stated): after B unpruned restarts the next ShouldRestart returns
\* (false, circuit) and the circuit is open; CircuitOpenCount counts the ids
\* opened and not reset.
C5_AsStated ==
  [][\A id \in Ids : (BudgetUsed(id) /\ CallShouldRestart(id)) =>
       /\ ret'.allowed = FALSE /\ ret'.reason = SkipCircuit
       /\ IsCircuitOpen(history', id)
       /\ CircuitOpenCount(history') = Cardinality(opened')]_vars

\* C5 (amended): after B unpruned restarts, a ShouldRestart made once the
\* backoff of the last restart has expired returns (false, circuit) and the
\* circuit is open; CircuitOpenCount always equals the number of ids whose
\* circuit was opened and not reset.
C5_BudgetExhausted ==
  [][/\ \A id \in Ids :
          (BudgetUsed(id) /\ now >= Entry(history, id).BackoffUntil /\ CallShouldRestart(id)) =>
             /\ ret'.allowed = FALSE /\ ret'.reason = SkipCircuit
             /\ IsCircuitOpen(history', id)
     /\ CircuitOpenCount(history') = Cardinality(opened')]_vars

\* One id has just exhausted its budget and stands with an open circuit, next
\* to another id whose circuit is closed.
C5_Witness ==
  /\ ret.op = "ShouldRestart" /\ ret.reason = SkipCircuit /\ ~ret.pre.open
  /\ ret.pre.restarts = cfg.RestartBudget /\ ret.pre.remaining = 0
  /\ recorded[ret.id] = cfg.RestartBudget
  /\ CircuitOpenCount(history) = 1
  /\ \E other \in DOMAIN history : ~history[other].CircuitOpen

\* C7: right after the k-th RecordRestart(id) since the entry was created,
\* BackoffRemaining(id) = min(10 * multiplier^(k-1), backoffMax); the delay
\* never exceeds backoffMax and never decreases.
C7_BackoffSchedule ==
  [][\A id \in Ids : CallRecordRestart(id) =>
       /\ BackoffRemaining(history', id, now')
            = Min(InitialBackoff * Pow(cfg.BackoffMultiplier, recorded'[id] - 1), cfg.BackoffMax)
       /\ history'[id].BackoffDelay <= cfg.BackoffMax
       /\ history'[id].BackoffDelay >= Entry(history, id).BackoffDelay]_vars

\* The third restart in a row, made after the second backoff expired, is
\* capped at backoffMax instead of 40 s.
C7_Witness ==
  /\ ret.op = "RecordRestart" /\ ret.pre.remaining = 0 /\ ret.pre.restarts = 2
  /\ recorded[ret.id] = 3
  /\ cfg.BackoffMultiplier = 2
  /\ BackoffRemaining(history, ret.id, now) = cfg.BackoffMax

\* C8: after Reset(id), from any state, ShouldRestart(id) returns
\* (true, none), BackoffRemaining(id) is 0 and IsCircuitOpen(id) is false.
C8_ResetClears ==
  [][\A id \in Ids : CallReset(id) =>
       /\ ShouldRestart(cfg, history', id, now').allowed = TRUE
       /\ ShouldRestart(cfg, history', id, now').reason = SkipNone
       /\ BackoffRemaining(history', id, now') = 0
       /\ ~IsCircuitOpen(history', id)]_vars

\* A Reset that found the circuit open and a backoff still running.
C8_Witness ==
  /\ ret.op = "Reset" /\ ret.pre.open /\ ret.pre.remaining > 0
  /\ ret.pre.restarts >= cfg.RestartBudget
  /\ ret.id \notin DOMAIN history

\* B = budget restarts were recorded for id, the circuit is closed and the
\* clock has moved more than the window past the last of them.
WindowPassed(id) ==
  /\ cfg.RestartBudget > 0
  /\ recorded[id] = cfg.RestartBudget
  /\ ~IsCircuitOpen(history, id)
  /\ now > LastRestart(id) + cfg.RestartWindow

\* C9 (as stated): for every budget and window, once the clock is past the
\* window after B restarts, ShouldRestart returns (true, none) and the
\* circuit stays closed.
C9_AsStated ==
  [][\A id \in Ids : (WindowPassed(id) /\ CallShouldRestart(id)) =>
       /\ ret'.allowed = TRUE /\ ret'.reason = SkipNone
       /\ ~IsCircuitOpen(history', id)]_vars

\* C9 (amended): for every budget B > 0 and window W > 0, once the clock is
\* past both the window and the backoff of the last of B recorded restarts,
\* ShouldRestart returns (true, none) and the circuit stays closed.
C9_WindowPruning ==
  [][\A id \in Ids :
       (WindowPassed(id) /\ cfg.RestartWindow > 0
          /\ now >= Entry(history, id).BackoffUntil /\ CallShouldRestart(id)) =>
            /\ ret'.allowed = TRUE /\ ret'.reason = SkipNone
            /\ ~IsCircuitOpen(history', id)
            /\ history'[id].Restarts = << >>]_vars

\* A full budget of two restarts was pruned by the call that then allowed
\* the restart.
C9_Witness ==
  /\ ret.op = "ShouldRestart" /\ ret.allowed /\ ~ret.pre.open
  /\ cfg.RestartBudget = 2 /\ ret.pre.restarts = 2
  /\ recorded[ret.id] = 2
  /\ history[ret.id].Restarts = << >>
  /\ now > LastRestart(ret.id) + cfg.RestartWindow

\* The call finds the budget exhausted: circuit closed, budget > 0 and at
\* least budget restarts left after pruning.
FindsExhausted(id) ==
  /\ ~IsCircuitOpen(history, id)
  /\ cfg.RestartBudget > 0
  /\ Len(pruneOld(cfg, now, Entry(history, id).Restarts)) >= cfg.RestartBudget

\* C10 (as stated): the call that finds the budget exhausted returns the
\* reason circuit, also while now < backoffUntil.
C10_AsStated ==
  [][\A id \in Ids : (FindsExhausted(id) /\ CallShouldRestart(id)) =>
       ret'.reason = SkipCircuit]_vars

\* C10 (amended): the call that finds the budget exhausted returns the
\* reason circuit if now >= backoffUntil; while now < backoffUntil it returns
\* (false, backoff) and leaves the circuit closed.
C10_CircuitReason ==
  [][\A id \in Ids : (FindsExhausted(id) /\ CallShouldRestart(id)) =>
       /\ now >= Entry(history, id).BackoffUntil =>
            (ret'.reason = SkipCircuit /\ IsCircuitOpen(history', id))
       /\ now < Entry(history, id).BackoffUntil =>
            (ret'.reason = SkipBackoff /\ ~ret'.allowed /\ ~IsCircuitOpen(history', id))]_vars

\* A call made inside the backoff with the budget already used up: it
\* answered backoff and the circuit is still closed.
C10_Witness ==
  /\ ret.op = "ShouldRestart" /\ ret.reason = SkipBackoff
  /\ ret.pre.remaining > 0
  /\ cfg.RestartBudget > 0 /\ ret.pre.restarts >= cfg.RestartBudget
  /\ Len(history[ret.id].Restarts) >= cfg.RestartBudget
  /\ ~history[ret.id].CircuitOpen

\* ------------------------------------------------------- handler claims
CriticalNote(id) == Note("Action", TRUE, "circuit open (restart budget exhausted)", id)

Allowed == [allowed |-> TRUE, reason |-> SkipNone]

\* C1 (as stated): the runtime receives no restart or stop call for a
\* container id while a backoff recorded for an earlier call on that id is
\* still running.
C1_AsStated ==
  \A i \in 1..Len(called) : BackoffRemaining(history, called[i].id, now) = 0

\* C2: the handler calls restart or stop only for the container for which the
\* tracker has just answered (true, none) to this pass; when the tracker
\* answers circuit the step makes no runtime call and emits exactly the
\* critical action notification; when it answers backoff the step makes no
\* runtime call and emits nothing.
C2_ActsOnlyWhenAllowed ==
  [][/\ \A t \in Tasks :
          /\ (TaskEvaluate(t) /\ ret'.op = "ShouldRestart") =>
               /\ called' = << >>
               /\ (task'[t].pc = "act") <=> (ret'.allowed /\ ret'.reason = SkipNone)
               /\ task'[t].pc = "act" =>
                    task'[t].cur = ret'.id /\ task'[t].decision = Allowed
               /\ ret'.reason = SkipCircuit => emitted' = <<CriticalNote(ret'.id)>>
               /\ ret'.reason = SkipBackoff => emitted' = << >>
          /\ TaskAct(t) =>
               /\ task[t].decision = Allowed
               /\ Len(called') = 1
               /\ called'[1].id = task[t].cur
               /\ called'[1].op \in {"restart", "stop"}
     /\ called' # << >> => \E t \in Tasks : TaskAct(t)
    ]_vars

\* The tracker has just answered circuit to a pass of a debounced task: no
\* call was made and the critical notification is out.
C2_Witness ==
  /\ ret.op = "ShouldRestart"
  /\ ret.reason = SkipCircuit
  /\ ret.pre.restarts >= cfg.RestartBudget
  /\ emitted = <<CriticalNote(ret.id)>>
  /\ called = << >>
  /\ \E i \in DOMAIN timers : timers[i].state \in {"running", "done"}

\* C6 (as stated): for every container id, if budget > 0 and the circuit is
\* closed, the number of recorded restarts is at most the budget.
C6_AsStated ==
  \A id \in DOMAIN history :
    (cfg.RestartBudget > 0 /\ ~history[id].CircuitOpen)
      => Len(history[id].Restarts) <= cfg.RestartBudget

Range(q) == {q[i] : i \in DOMAIN q}

RestartsOf(hist, id) == IF id \in DOMAIN hist THEN hist[id].Restarts ELSE << >>

FailureTexts == {"Failed to restart the container!", "Failed to stop (quarantine)!"}

\* C11 (as stated): every restart or stop call of the handler is followed by
\* RecordRestart(id) by the same pass, whether the call succeeded or failed;
\* a failed call yields exactly one action notification, which says
\* "Failed"; the pass does not come back to the container; and an
\* evaluation of a container made while the backoff recorded for it is
\* running ends with the tracker's answer backoff and no call.
C11_AsStated ==
  [][\A t \in Tasks :
       /\ TaskAct(t) =>
            /\ task'[t].pc = "record"
            /\ task'[t].cur = called'[1].id
            /\ Len(emitted') = 1
            /\ emitted'[1].verb = "Action"
            /\ ~called'[1].ok => emitted'[1].text \in FailureTexts
       /\ (task[t].pc = "record" /\ task'[t] # task[t]) =>
            /\ RestartsOf(history', task[t].cur) =
                 Append(RestartsOf(history, task[t].cur), now)
            /\ task[t].cur \notin Range(task'[t].queue)
       /\ (TaskEvaluate(t) /\ ret'.op = "ShouldRestart" /\ ret'.pre.remaining > 0) =>
            /\ ret'.reason = SkipBackoff
            /\ called' = << >>
    ]_vars

OptedOut(l) ==
  \/ "autoheal" \in DOMAIN l /\ l["autoheal"] = "False"
  \/ "autoheal.action" \in DOMAIN l /\ l["autoheal.action"] = "none"

\* C12: a handler pass that comes to an unhealthy container labelled
\* autoheal=False or autoheal.action=none moves on without a runtime call,
\* without a notification and without consulting guards or tracker; no call
\* and no notification of any step is about such a container.
C12_OptOutIgnored ==
  [][/\ \A t \in Tasks :
          (TaskEvaluate(t) /\ OptedOut(labels[Head(task[t].queue)])) =>
            /\ called' = << >>
            /\ emitted' = << >>
            /\ history' = history
            /\ cache' = cache
            /\ task'[t].pc # "act"
     /\ \A i \in 1..Len(called') : ~OptedOut(labels[called'[i].id])
     /\ \A i \in 1..Len(emitted') : ~OptedOut(labels[emitted'[i].id])
    ]_vars

\* A pass has just moved on from an opted-out container while every guard
\* is configured and the tracker holds nothing against it.
C12_Witness ==
  /\ ret.op = "continue"
  /\ OptedOut(labels[ret.id])
  /\ ret.id \in unhealthy
  /\ gcfg = GuardsOn
  /\ ~IsCircuitOpen(history, ret.id)
  /\ BackoffRemaining(history, ret.id, now) = 0
  /\ called = << >>
  /\ emitted = << >>

NotifyOnly(l) ==
  /\ ~OptedOut(l)
  /\ "autoheal.action" \in DOMAIN l
  /\ l["autoheal.action"] = "notify"

NotifyNote(id) == Note("Action", FALSE, "found to be unhealthy (action=notify)", id)

\* C13: the loop iteration for a container with autoheal.action=notify makes
\* no restart or stop call and does not touch the tracker; when shouldSkip
\* lets the container pass it emits exactly one action notification, when
\* shouldSkip skips it the only notification is the skip, and no call of any
\* step is about such a container.
C13_NotifyOnly ==
  [][/\ \A t \in Tasks :
          (TaskEvaluate(t) /\ NotifyOnly(labels[Head(task[t].queue)])) =>
            /\ called' = << >>
            /\ history' = history
            /\ task'[t].pc # "act"
            /\ ret'.id = Head(task[t].queue)
            /\ ret'.op \in {"shouldSkip", "continue"}
            /\ (ret'.op = "shouldSkip" /\ ret'.allowed) =>
                 emitted' = <<NotifyNote(ret'.id)>>
            /\ (ret'.op = "shouldSkip" /\ ~ret'.allowed) =>
                 /\ Len(emitted') = 1
                 /\ emitted'[1].verb = "Skip"
                 /\ emitted'[1].id = ret'.id
            /\ ret'.op = "continue" => emitted' = << >>
            /\ (ret'.op = "shouldSkip" /\ gcfg = GuardsOff) => ret'.allowed
     /\ \A i \in 1..Len(called') : ~NotifyOnly(labels[called'[i].id])
    ]_vars

\* A notify-only container has just passed shouldSkip with every guard
\* configured, and the one action notification is out.
C13_Witness ==
  /\ ret.op = "shouldSkip"
  /\ ret.allowed
  /\ NotifyOnly(labels[ret.id])
  /\ gcfg = GuardsOn
  /\ emitted = <<NotifyNote(ret.id)>>
  /\ called = << >>

Quarantine(l) ==
  /\ ~OptedOut(l)
  /\ "autoheal.action" \in DOMAIN l
  /\ l["autoheal.action"] = "stop"

\* The timeout the labels ask for: the number written in
\* autoheal.stop.timeout, or the configured default.
TimeoutAsked(g, l) ==
  IF "autoheal.stop.timeout" \in DOMAIN l /\ l["autoheal.stop.timeout"] = "30"
  THEN 30
  ELSE g.DefaultStopTimeout

\* C14: a container with autoheal.action=stop that the tracker let pass is
\* taken to the runtime call, and that call is stop(id, timeout) with the
\* timeout of its autoheal.stop.timeout label if that is a number and the
\* default otherwise; a successful stop is notified as "Stopped
\* (quarantined)."; no restart call of any step is about such a container.
C14_StopQuarantines ==
  [][/\ \A t \in Tasks :
          /\ (TaskEvaluate(t) /\ Quarantine(labels[Head(task[t].queue)])
                /\ ret'.op = "ShouldRestart" /\ ret'.allowed) =>
               /\ task'[t].pc = "act"
               /\ task'[t].cur = Head(task[t].queue)
          /\ (task[t].pc = "act" /\ Quarantine(labels[task[t].cur])
                /\ task'[t] # task[t]) =>
               /\ Len(called') = 1
               /\ called'[1].op = "stop"
               /\ called'[1].id = task[t].cur
               /\ called'[1].timeout = TimeoutAsked(gcfg, labels[task[t].cur])
               /\ called'[1].ok =>
                    emitted' = <<Note("Action", FALSE, "Stopped (quarantined).", task[t].cur)>>
     /\ \A i \in 1..Len(called') :
          Quarantine(labels[called'[i].id]) => called'[i].op = "stop"
    ]_vars

\* A stop with the timeout of the label has just succeeded.
C14_Witness ==
  /\ Len(called) = 1
  /\ called[1].op = "stop"
  /\ called[1].ok
  /\ called[1].timeout = 30
  /\ called[1].timeout # gcfg.DefaultStopTimeout
  /\ labels[called[1].id] = StopLabels
  /\ emitted = <<Note("Action", FALSE, "Stopped (quarantined).", called[1].id)>>

\* ========================================================== guard claims
\* The orchestration events a call of shouldSkip goes by: the cycle's
\* cached ones, else what the runtime answers now (nothing on an error).
KnownEvents == IF ret.pre.orchestratorCached THEN ret.pre.orchestratorEvents
               ELSE IF ret.q.err THEN {} ELSE ret.q.names

OrchestrationHolds ==
  /\ gcfg.WatchtowerCooldown > 0
  /\ IF gcfg.WatchtowerScope = "affected" THEN ret.id \in KnownEvents ELSE KnownEvents # {}

GraceHolds == gcfg.GracePeriod > 0 /\ ~ret.fin.err /\ ret.fin.age < gcfg.GracePeriod

BackupHolds ==
  /\ gcfg.BackupLabel # ""
  /\ gcfg.BackupLabel \in DOMAIN labels[ret.id]
  /\ \/ ret.pre.backupRunning = "true"
     \/ ret.pre.backupRunning = "nil" /\ ret.r = "backup"

SkippedFor(text) ==
  /\ ~ret.allowed
  /\ Len(emitted) = 1
  /\ emitted[1].verb = "Skip"
  /\ emitted[1].text = text
  /\ emitted[1].id = ret.id

\* C15: when several guards apply, shouldSkip skips with one notification,
\* for the first applicable guard in the order orchestration, grace,
\* backup; once a guard has fired the later ones make no query and leave
\* their cache alone.
C15_FirstGuardWins ==
  ret.op = "shouldSkip" =>
    /\ OrchestrationHolds =>
         /\ SkippedFor("skipped - orchestration activity")
         /\ ret.asked \subseteq {"events"}
         /\ cache.backupRunning = ret.pre.backupRunning
    /\ (~OrchestrationHolds /\ GraceHolds) =>
         /\ SkippedFor("skipped - grace period")
         /\ "running" \notin ret.asked
         /\ cache.backupRunning = ret.pre.backupRunning
    /\ (~OrchestrationHolds /\ ~GraceHolds /\ BackupHolds) =>
         SkippedFor("skipped - backup running")

C15_Witness ==
  /\ ret.op = "shouldSkip"
  /\ OrchestrationHolds /\ GraceHolds /\ BackupHolds
  /\ ret.pre.backupRunning = "nil"
  /\ SkippedFor("skipped - orchestration activity")

OrchestrationSkip ==
  /\ ~ret.allowed
  /\ Len(emitted) = 1
  /\ emitted[1] = Note("Skip", FALSE, "skipped - orchestration activity", ret.id)

\* C16: with a cooldown, scope all skips every container when the events
\* of the cooldown window are not empty, scope affected skips exactly the
\* containers named by one of them; without a cooldown the orchestration
\* guard never skips.
C16_OrchestrationScope ==
  ret.op = "shouldSkip" =>
    /\ (gcfg.WatchtowerCooldown > 0 /\ gcfg.WatchtowerScope = "all") =>
         (OrchestrationSkip <=> KnownEvents # {})
    /\ (gcfg.WatchtowerCooldown > 0 /\ gcfg.WatchtowerScope = "affected") =>
         (OrchestrationSkip <=> ret.id \in KnownEvents)
    /\ gcfg.WatchtowerCooldown = 0 =>
         (~OrchestrationSkip /\ "events" \notin ret.asked)

C16_Witness ==
  /\ ret.op = "shouldSkip"
  /\ gcfg.WatchtowerCooldown > 0 /\ gcfg.WatchtowerScope = "affected"
  /\ ret.pre.orchestratorCached
  /\ KnownEvents = {"a"}
  /\ ret.id = "b"
  /\ ~OrchestrationSkip

\* An event in the map orchestrationEvents that concerns container id
\* (its own name under scope affected, any name under scope all) and is
\* less than the cooldown old.
LedgerHolds(id) ==
  /\ gcfg.WatchtowerCooldown > 0
  /\ \E n \in DOMAIN cache.orchestrationEvents :
       /\ gcfg.WatchtowerScope = "affected" => n = id
       /\ now < cache.orchestrationEvents[n] + gcfg.WatchtowerCooldown

\* C17: a create or destroy event for a name is stored in the map with its
\* time, and every guard evaluation made less than the cooldown after it
\* is an orchestration skip for that name under scope affected, for any
\* container under scope all.
C17_AsStated ==
  [][/\ \A name \in Ids :
          HandleCreate(name) =>
            /\ name \in DOMAIN cache'.orchestrationEvents
            /\ cache'.orchestrationEvents[name] = now
     /\ \A t \in Tasks :
          (/\ TaskEvaluate(t)
           /\ ret'.op \in {"shouldSkip", "ShouldRestart"}
           /\ LedgerHolds(ret'.id)) =>
            /\ ret'.op = "shouldSkip"
            /\ ~ret'.allowed
            /\ emitted' = <<Note("Skip", FALSE, "skipped - orchestration activity", ret'.id)>>
    ]_vars

GraceSkip ==
  /\ ~ret.allowed
  /\ Len(emitted) = 1
  /\ emitted[1] = Note("Skip", FALSE, "skipped - grace period", ret.id)

BackupSkip ==
  /\ ~ret.allowed
  /\ Len(emitted) = 1
  /\ emitted[1] = Note("Skip", FALSE, "skipped - backup running", ret.id)

\* C18: with a grace period, a call that the orchestration guard lets
\* through is a grace skip iff the runtime reports the last stop less than
\* the grace period ago; a failed finishedAt query bypasses the guard and
\* the backup guard decides; without a grace period the guard never skips
\* and makes no query.
C18_GracePeriod ==
  (ret.op = "shouldSkip" /\ ~OrchestrationHolds) =>
    /\ gcfg.GracePeriod > 0 =>
         /\ "finishedAt" \in ret.asked
         /\ GraceSkip <=> (~ret.fin.err /\ ret.fin.age < gcfg.GracePeriod)
         /\ ret.fin.err =>
              /\ BackupSkip <=> BackupHolds
              /\ ret.allowed <=> ~BackupHolds
              /\ isBackupManaged(gcfg, labels[ret.id]) => cache.backupRunning # "nil"
    /\ gcfg.GracePeriod = 0 => (~GraceSkip /\ "finishedAt" \notin ret.asked)

C18_Witness ==
  /\ ret.op = "shouldSkip" /\ ~OrchestrationHolds
  /\ gcfg.GracePeriod > 0
  /\ ret.fin.err
  /\ BackupHolds /\ BackupSkip
  /\ "running" \in ret.asked

\* C19: a call of shouldSkip is a backup skip iff the container carries
\* the backup label and a backup container runs; within one pass of the
\* handler the running list is queried at most once, and every evaluation
\* of the pass goes by the answer the first one went by.
C19_AsStated ==
  [][\A t \in Tasks :
       (TaskEvaluate(t) /\ ret'.op \in {"shouldSkip", "ShouldRestart"}) =>
         /\ (/\ ret'.op = "shouldSkip" /\ ~ret'.allowed
             /\ emitted' = <<Note("Skip", FALSE, "skipped - backup running", ret'.id)>>)
              <=> (/\ isBackupManaged(gcfg, labels[ret'.id])
                   /\ cache'.backupRunning = "true")
         /\ task[t].seen # "nil" =>
              /\ cache.backupRunning # "nil"
              /\ cache'.backupRunning = task[t].seen
    ]_vars

\* The reason label that goes with the text of a skip notification.
ReasonOf(text) ==
  CASE text = "skipped - orchestration activity" -> "orchestration"
    [] text = "skipped - grace period" -> "grace"
    [] text = "skipped - backup running" -> "backup"
    [] OTHER -> "none"

\* C20: a skip decided by shouldSkip emits exactly one skip notification
\* and increments skips_total exactly once, with the reason of the guard
\* that fired.
C20_AsStated ==
  (ret.op = "shouldSkip" /\ ~ret.allowed) =>
    /\ Len(emitted) = 1
    /\ emitted[1].verb = "Skip"
    /\ ReasonOf(emitted[1].text) # "none"
    /\ ret.counted = <<SkipsTotal(ret.id, ReasonOf(emitted[1].text))>>

\* ====================================================== resolver claims
StartCall(id) == called' # << >> /\ called'[1].op = "start" /\ called'[1].id = id

\* C21: an exited child of a running parent that no guard holds back is
\* taken to the start, the start is one call with one action notification,
\* no child is started twice in a pass, and only containers that were
\* exited when the pass listed them are started.
C21_StartsOnce ==
  [][/\ DepBegin => \A i \in dep'.listed : dep.status[i] = "exited"
     /\ (DepEvaluate /\ ret'.op = "shouldSkip" /\ ret'.allowed) =>
          /\ dep.status[NetworkMode(ret'.id).rest] = "running"
          /\ dep'.cur = ret'.id
          /\ dep'.pc \in {"wait", "recheck"}
     /\ (DepStart /\ dep.status[dep.cur] = "exited") =>
          /\ StartCall(dep.cur)
          /\ Len(called') = 1
          /\ Len(emitted') = 1
          /\ emitted'[1].verb = "Action"
          /\ emitted'[1].id = dep.cur
     /\ \A id \in DepIds :
          StartCall(id) => (id \in dep.listed /\ id \notin Range(dep.started))
    ]_vars

C21_Witness ==
  /\ ret.op = "start"
  /\ called = <<[op |-> "start", id |-> "b", timeout |-> 0, ok |-> TRUE]>>
  /\ dep.started = <<"b">>
  /\ dep.status["a"] = "running"
  /\ dep.status["b"] = "running"
  /\ Len(emitted) = 1

\* The steps that lead to the re-check of the child go by a parent that
\* is running: at the first check, and after the wait when there is one.
ParentChecked ==
  /\ (DepEvaluate /\ dep'.pc \in {"wait", "recheck"}) =>
       /\ dep.status[NetworkMode(dep'.cur).rest] = "running"
       /\ dep'.pc = "wait" <=> dep.DependencyStartDelay > 0
  /\ (dep.pc = "wait" /\ dep'.pc = "recheck") =>
       /\ DepWake
       /\ dep.status[NetworkMode(dep.cur).rest] = "running"
  /\ (dep.pc # "recheck" /\ dep'.pc = "recheck") => (DepEvaluate \/ DepWake)

\* C22 as stated: a start is issued only after the parent was running at
\* the first check and at the re-check after the wait, and only for a
\* child that is still exited at its final re-check.
C22_AsStated ==
  [][/\ ParentChecked
     /\ \A id \in DepIds : StartCall(id) => dep.status[id] = "exited"
    ]_vars

\* C22, amended: the parent is checked as stated; a start is issued unless
\* the final re-check of the child reports a status other than exited, so
\* a child that left exited is started only when that re-check failed.
C22_RecheckedStart ==
  [][/\ ParentChecked
     /\ \A id \in DepIds :
          StartCall(id) =>
            /\ dep.pc = "recheck" /\ dep.cur = id
            /\ ret'.op = "start"
            /\ ret'.answer \in {"err", "exited"}
            /\ dep.status[id] # "exited" => ret'.answer = "err"
     /\ (DepStart /\ ret'.op = "recovered") =>
          (called' = << >> /\ dep.status[dep.cur] # "exited")
    ]_vars

C22_Witness ==
  /\ ret.op = "recovered"
  /\ ret.id = "b"
  /\ dep.DependencyStartDelay > 0
  /\ dep.status["b"] = "running"
  /\ called = << >>

\* C23: on the chain a <- b <- c with a running, the passes eventually
\* leave b and c running for good; b is started while a is running, c
\* while b is running.
C23_ChainConverges ==
  /\ <>[](dep.status["b"] = "running" /\ dep.status["c"] = "running")
  /\ [][\A id \in {"b", "c"} :
          StartCall(id) => dep.status[NetworkMode(id).rest] = "running"]_vars

C23_Witness ==
  /\ dep.status["a"] = "running"
  /\ dep.status["b"] = "running"
  /\ dep.status["c"] = "running"
  /\ dep.starts["b"] >= 1
  /\ dep.starts["c"] >= 1
  /\ ret.op = "start" /\ ret.id = "c"

\* C24: the resolver consults the RestartTracker before it starts a child,
\* so no child is started more often than the restart budget allows inside
\* the window (the clock of these runs stands still: every start is inside
\* the window), and every start is entered in the tracker's history.
C24_AsStated ==
  /\ \A id \in DepIds : dep.starts[id] <= cfg.RestartBudget
  /\ \A id \in DepIds : dep.starts[id] > 0 => id \in DOMAIN history

\* C25: the resolver starts an exited child only when its exit code is
\* 128.
C25_AsStated ==
  [][\A id \in DepIds : StartCall(id) => dep.exitCode[id] = 128]_vars

\* ===================================================== controller claims
\* C26: a schedule for a key stops every timer of that key that was
\* scheduled less than the debounce interval before and has not fired, a
\* timer fires no earlier than one interval after its schedule, and when
\* it fires no other timer of its key scheduled less than an interval
\* apart is left to fire: schedules inside one window run one function.
C26_AsStated ==
  [][/\ \A id \in Ids :
          HandleUnhealthy(id) =>
            \A i \in DOMAIN timers :
              (timers[i].key = id /\ timers[i].state = "pending" /\ now < timers[i].deadline)
                => timers'[i].state = "stopped"
     /\ \A i \in DOMAIN timers :
          TimerFire(i) =>
            /\ now >= timers[i].deadline
            /\ \A j \in DOMAIN timers \ {i} :
                 (timers[j].key = timers[i].key /\ timers[j].state = "pending") =>
                   \/ timers[j].deadline - timers[i].deadline >= debounceWindow(gcfg)
                   \/ timers[i].deadline - timers[j].deadline >= debounceWindow(gcfg)
    ]_vars

\* C27: a health_status: healthy event for a container resets its history in
\* the dispatch task, and the history stays empty (circuit closed, no
\* backoff, no recorded restart) for the handler evaluation that starts
\* next: the step that follows the event leaves the history of the
\* container empty, and an evaluation of the container that follows the
\* event finds it empty.
C27_AsStated ==
  [][\A id \in Ids :
       (ret.op = "Reset" /\ ret.id = id) =>
         /\ Found(history', id, now') = NoRet.pre
         /\ \A t \in Tasks :
              (TaskEvaluate(t) /\ ret'.op = "ShouldRestart" /\ ret'.id = id)
                => ret'.pre = NoRet.pre
    ]_vars

\* C28: with unhealthyThreshold T > 1 the handler takes no action on a
\* container (restart, stop or notification of its state) before the
\* tracker has counted T consecutive unhealthy detections of it.
C28_AsStated ==
  [][\A t \in Tasks :
       gcfg.UnhealthyThreshold > 1 =>
         /\ TaskAct(t) =>
              UnhealthyCount(history, task[t].cur) >= gcfg.UnhealthyThreshold
         /\ (TaskEvaluate(t) /\ \E i \in DOMAIN emitted' :
                                  emitted'[i].verb = "Action" /\ ~emitted'[i].critical)
              => UnhealthyCount(history', Head(task[t].queue)) >= gcfg.UnhealthyThreshold
    ]_vars

\* C29: the backoff of a container is reset only after the container has
\* stayed healthy for backoffResetAfter seconds: the healthy report itself,
\* after which the container may relapse at once, leaves the restart
\* history, the backoff delay and the backoff deadline of the container as
\* they are.
C29_AsStated ==
  [][\A id \in Ids :
       (/\ HandleHealthy(id)
        /\ cfg.BackoffResetAfter > 0
        /\ id \in DOMAIN history
        /\ history[id].Restarts # << >>) =>
         /\ id \in DOMAIN history'
         /\ history'[id].Restarts = history[id].Restarts
         /\ history'[id].BackoffDelay = history[id].BackoffDelay
         /\ history'[id].BackoffUntil = history[id].BackoffUntil
    ]_vars

\* C30: no notification (success, failure or skip) is emitted for a
\* container that carries the label autoheal.notify=false.
C30_AsStated ==
  \A i \in DOMAIN emitted :
    LET l == labels[emitted[i].id]
    IN ~("autoheal.notify" \in DOMAIN l /\ l["autoheal.notify"] = "false")

\* ------------------------------------------------- claims about the watcher
RECURSIVE Pow2(_)
Pow2(n) == IF n <= 0 THEN 1 ELSE 2 * Pow2(n - 1)

\* C31: every disconnect met with the context live is followed by a
\* reconnect attempt (the stream is never read with fewer calls of Events
\* than disconnects plus one), and the wait after the k-th disconnect in a
\* row is min(2^(k-1), 30) seconds: 1, 2, 4, 8, 16, 30, 30, never more
\* than 30.
C31_ReconnectDelays ==
  /\ watch.backoff <= reconnectMax
  /\ watch.pc = "wait" =>
       watch.backoff = Min(Pow2(watch.closures - 1), reconnectMax)
  /\ watch.pc \in {"stream", "send"} => watch.opens = watch.closures + 1

C31_Witness ==
  /\ watch.pc = "wait"
  /\ watch.closures = 7
  /\ watch.backoff = reconnectMax
  /\ watch.opens = 7

\* C32: the reconnect delay is back at its initial value (1 s) after every
\* connection that was seen to work (it delivered an event, or it lasted
\* the liveness window): the disconnect of such a connection is waited
\* out for 1 s.
C32_AsStated ==
  (watch.pc = "wait" /\ watch.wasSound) => watch.backoff = InitialReconnect

\* C33: while the context is live, the events the watcher has taken from
\* the runtime stream are, in the order of their receipt and each once,
\* the events the consumer has taken from the channel, followed by those
\* in the channel, followed by the one the watcher is blocked on; the
\* channel never holds more than its capacity.
C33_NoLossNoReorder ==
  /\ Len(watch.ch) <= ChanCap
  /\ watch.ctx = "live" =>
       watch.received =
         watch.delivered \o watch.ch \o
           (IF watch.pc = "send" THEN <<watch.evt>> ELSE << >>)
  /\ \A i \in DOMAIN watch.delivered : watch.delivered[i] = watch.received[i]

C33_Witness ==
  /\ watch.ctx = "live"
  /\ watch.pc = "send"
  /\ Len(watch.ch) = ChanCap
  /\ watch.delivered = << >>

\* -------------------------------------------------- claims about shutdown
\* Every task of the run has ended: the watcher has returned and closed its
\* channel, Run has returned, no debounced function is due.
Terminated ==
  IF watch.pc = "off"
  THEN dep.pc = "stopped"
  ELSE /\ watch.pc = "closed"
       /\ watch.chClosed
       /\ dispatch = "returned"
       /\ ~watch.pass

\* C34: once the context is cancelled every task terminates (the watcher
\* leaves a pending send or wait and closes its channel, Run returns in
\* either mode, the resolver leaves the start delay), and a debounced
\* function whose timer fires after the cancellation does not run.
C34_Terminates ==
  /\ ctxDone(watch) ~> Terminated
  /\ [][(WatchPass /\ ctxDone(watch)) => watch'.handled = watch.handled]_vars
  /\ [][(DepCancel \/ PollingReturns) => (called' = << >> /\ emitted' = << >>)]_vars

C34_Witness ==
  /\ ctxDone(watch)
  /\ watch.pc = "send"
  /\ Len(watch.ch) = ChanCap
  /\ dispatch = "returned"

\* ----------------------------------------------- claims about shared state
\* Task u is inside a handler pass: between the listing of the unhealthy
\* containers and the end of the loop, where the guards read the caches.
InPass(u) == task[u].pc \in {"loop", "act", "record"}

\* C35: the per-cycle caches of the guards (orchestratorCached,
\* orchestratorEvents, backupRunning) are never accessed by two tasks at
\* the same time: no task writes them while another task is inside a
\* handler pass.
C35_AsStated ==
  [][\A t \in Tasks :
       (/\ TimerFire(t) \/ (t = 0 /\ fullScan) \/ TaskEvaluate(t)
        /\ \/ cache'.orchestratorCached # cache.orchestratorCached
           \/ cache'.orchestratorEvents # cache.orchestratorEvents
           \/ cache'.backupRunning # cache.backupRunning)
         => \A u \in Tasks \ {t} : ~InPass(u)
    ]_vars

\* C36: the function of a timer removes only the entry of its own timer
\* from the timer map, so a timer that is pending is the one stored under
\* its key (and the next debounce call for the key stops it).
C36_AsStated ==
  \A i \in DOMAIN timers :
    timers[i].state = "pending" =>
      /\ timers[i].key \in DOMAIN debounceTimers
      /\ debounceTimers[timers[i].key] = i

\* ---------------------------------------------- claims about reconnection
\* The stream is open and nothing is under way: no message on the stream,
\* no event in the channel or at the watcher, no debounced pass due, the
\* task of Run waits in its event loop.
Quiescent ==
  /\ watch.ctx = "live"
  /\ watch.pc = "stream"
  /\ watch.msgs = << >>
  /\ watch.ch = << >>
  /\ ~watch.pass
  /\ dispatch = "loop"

\* C37: a full scan runs on startup and after every reconnection of the
\* stream, so once the stream is open again and the engine has come to
\* rest, every container that turned unhealthy between two connections has
\* been handled.
C37_AsStated ==
  Quiescent => watch.lost \subseteq watch.handled

\* ------------------------------------------- claims about the frame of calls
\* The history of container b is the same before and after the step.
SameHistory(b) ==
  /\ (b \in DOMAIN history') <=> (b \in DOMAIN history)
  /\ b \in DOMAIN history => history'[b] = history[b]

\* C38: a tracker call for one container (ShouldRestart, RecordRestart,
\* RecordUnhealthy, ResetUnhealthy, Reset) leaves the history of every
\* other container as it was: restarts, backoff deadline and delay,
\* circuit and unhealthy count.
C38_OtherIdsUntouched ==
  [][\A a \in Ids :
       (\/ CallShouldRestart(a) \/ CallRecordRestart(a) \/ CallReset(a)
        \/ CallRecordUnhealthy(a) \/ CallResetUnhealthy(a))
         => \A b \in Ids \ {a} : SameHistory(b)
    ]_vars

C38_Witness ==
  /\ ret.op = "Reset" /\ ret.id = "a"
  /\ ret.pre.restarts > 0
  /\ "b" \in DOMAIN history
  /\ history["b"].Restarts # << >>
  /\ history["b"].UnhealthyCount > 0
  /\ history["b"].BackoffDelay > 0

\* C39: an iteration of the handler that ends for a container at the
\* opt-out, at action none, at the restarting state, at a guard skip or at
\* the notify-only notification leaves the tracker as it was: no entry is
\* created for the container, nothing is recorded, no backoff, no circuit.
C39_EarlyExitsLeaveTracker ==
  [][\A t \in Tasks :
       (TaskEvaluate(t) /\ ret'.op \in {"continue", "shouldSkip"})
         => (history' = history /\ SameHistory(ret'.id))
    ]_vars

C39_Witness ==
  /\ ret.op = "shouldSkip"
  /\ ~ret.allowed
  /\ ret.id \notin DOMAIN history
  /\ emitted # << >>

\* C40: when the context is cancelled while the resolver waits out the
\* start delay of a child, the pass ends at once (the rest of the list is
\* dropped), and from then on no container is started and no notification
\* is emitted, for that child or for a child listed after it.
C40_CancelEndsPass ==
  /\ [][DepCancel => (dep'.pc = "stopped" /\ dep'.queue = << >>)]_vars
  /\ [][ctxDone(watch) => (called' = << >> /\ emitted' = << >>
                            /\ dep'.started = dep.started)]_vars
  /\ [][DepCancel => (called' = << >> /\ emitted' = << >>
                       /\ dep'.started = dep.started)]_vars

C40_Witness ==
  /\ ret.op = "cancel"
  /\ ret.id = "b"
  /\ dep.pc = "stopped"
  /\ dep.listed = {"b", "c"}
  /\ dep.status["b"] = "exited" /\ dep.status["c"] = "exited"
  /\ dep.started = << >>

====
